---- MODULE Spec2Model ----
(***************************************************************************)
(* Progress/state engine of the birthday puzzle flow: the GameContext      *)
(* store (GameProvider), its persistence and allCompleted effects, and the *)
(* handlers of the riddle (Hegionit), word (Wordle) and grouping           *)
(* (Connections) pages that mutate it.                                     *)
(*                                                                         *)
(* JavaScript arrays are sequences (1-based); the source's 0-based indices *)
(* are kept for riddle numbers, letter positions and group numbers, and an *)
(* array a is read at source index i as a[i + 1].  A JavaScript string is  *)
(* the sequence of its characters.  Objects used as maps (Record<number,   *)
(* ...>) are functions whose domain is the set of keys present.            *)
(***************************************************************************)
EXTENDS Integers, Sequences, FiniteSets, TLC

VARIABLES
  state,            \* GameProvider: the GameState held by useState
  storage,          \* localStorage[STORAGE_KEY]: the snapshot last written
  pc,               \* "idle", or "effects" while a commit's effects are pending
  hegionitPage,     \* HegionitPage local state (inputLetters, lockedIndices, didInitForRiddle)
  wordlePage,       \* WordlePage local state (attempts, currentAttempt, keyboardStatus)
  connectionsPage,  \* ConnectionsPage local state (availableWords, selectedWords, solvedGroups, attempts)
  content,          \* puzzleData: the riddles, the target word and the groups
  last,             \* history: the last operation (op) and the branch it took or the
                    \* message it reported (hit)
  hinted            \* history: the words of the hint issued last on the grouping
                    \* page since the puzzle was last reset (none: <<>>)

vars == <<state, storage, pc, hegionitPage, wordlePage, connectionsPage, content, last,
          hinted>>

pageVars == <<hegionitPage, wordlePage, connectionsPage>>

(***************************************************************************)
(* Program constants                                                       *)
(***************************************************************************)
NumRiddles == 3
HintCap == 2
wordLength == 5
maxAttempts == 6
SelectionSize == 4

Pages == {"landing", "hub", "hegionit", "wordle", "connections", "final"}

EMPTY_SENTINEL == "NUL"

RiddleIdx == 0 .. (NumRiddles - 1)

(***************************************************************************)
(* Small helpers for arrays                                                *)
(***************************************************************************)
Range(s) == {s[i] : i \in DOMAIN s}

SetAt(s, i, v) == [s EXCEPT ![i + 1] = v]

Fill(n, v) == [i \in 1 .. n |-> v]

Every(s) == \A i \in DOMAIN s : s[i]

Some(s) == \E i \in DOMAIN s : s[i]

RECURSIVE Reverse(_)
Reverse(s) == IF s = <<>> THEN <<>> ELSE Append(Reverse(Tail(s)), Head(s))

RECURSIVE SumSeq(_)
SumSeq(s) == IF s = <<>> THEN 0 ELSE Head(s) + SumSeq(Tail(s))

(***************************************************************************)
(* Puzzle content (puzzleData).  A riddle answer is written so that its    *)
(* reversal holds final forms exactly at the end-of-word positions.        *)
(***************************************************************************)
NumGroups == 3

RiddleAnswers == << <<"a", " ", "a", "M">>, <<"a">>, <<"M">> >>

WordleWord == <<"b", "a", "a", "b", "M">>

WordList ==
  << <<"d">>, <<"a">>, <<"c", "a">>, <<"b">>,
     <<"h">>, <<"e">>, <<"g">>, <<"c">>,
     <<"f">>, <<"a", "b">>, <<"k">>, <<"j">>,
     <<"m">>, <<"n">>, <<"p">>, <<"l">> >>

GroupsOf(n) ==
  [g \in 1 .. n |->
     [words |-> [k \in 1 .. SelectionSize |-> WordList[(g - 1) * SelectionSize + k]],
      connection |-> g]]

Content == [hegionit |-> RiddleAnswers, wordle |-> WordleWord, groups |-> GroupsOf(NumGroups)]

\* what the player may type into a letter box of a riddle
RawInputs == {<<>>, <<"a">>, <<"M">>, <<" ", "m">>}

(***************************************************************************)
(* GameContext: defaults                                                   *)
(***************************************************************************)
\* HegionitPage.handleSubmit copies progress.tries and counts the submit in
\* it, reading a count that is not there as 0.  The initialProgress of
\* GameContext.tsx lists no tries; the record carries the field the page
\* reads, with the counts the page takes an untouched riddle to have.
initialTries == Fill(NumRiddles, 0)

initialHegionit ==
  [ currentRiddle |-> 0,
    solved        |-> Fill(NumRiddles, FALSE),
    hintsUsed     |-> Fill(NumRiddles, 0),
    answers       |-> Fill(NumRiddles, <<>>),
    lockedIndices |-> <<>>,
    solvedLetters |-> <<>> ] @@ [tries |-> initialTries]

initialWordle ==
  [ solved         |-> FALSE,
    failed         |-> FALSE,
    attempts       |-> <<>>,
    currentAttempt |-> <<>> ]

initialConnections ==
  [ solved           |-> FALSE,
    failed           |-> FALSE,
    solvedGroups     |-> <<>>,
    attempts         |-> 0,
    hintsUsed        |-> 0,
    lastHintWords    |-> <<>>,
    lastHintAttempts |-> -1,
    triedSelections  |-> <<>> ]

initialProgress ==
  [ hegionit    |-> initialHegionit,
    wordle      |-> initialWordle,
    connections |-> initialConnections ]

initialState ==
  [ currentPage  |-> "landing",
    progress     |-> initialProgress,
    allCompleted |-> FALSE ]

(***************************************************************************)
(* GameContext: the store's operations, as functions of the previous state *)
(* (each is the updater passed to setState).  A partial update is a record *)
(* that holds only the fields given; {...a, ...b} is b @@ a.               *)
(***************************************************************************)
\* variant: the page is spread over the initial state
setCurrentPageOfInitial(prev, page) == [currentPage |-> page] @@ initialState

setCurrentPage(prev, page) == [currentPage |-> page] @@ prev

\* variant: every field of the update replaces the previous one
updateHegionitProgressShallow(prev, updates) ==
  [prev EXCEPT !.progress.hegionit = updates @@ prev.progress.hegionit]

\* lockedIndices and solvedLetters, when the update carries them, are merged
\* key by key into the previous map (an absent previous map spreads as empty)
updateHegionitProgress(prev, updates) ==
  LET prevHegionit == prev.progress.hegionit
      merged == updates @@ prevHegionit
      PrevMap(field) == IF field \in DOMAIN prevHegionit THEN prevHegionit[field] ELSE <<>>
      byKey == [field \in {"lockedIndices", "solvedLetters"} \cap DOMAIN updates |->
                  updates[field] @@ PrevMap(field)]
  IN [prev EXCEPT !.progress.hegionit = byKey @@ merged]

updateWordleProgress(prev, updates) ==
  [prev EXCEPT !.progress.wordle = updates @@ prev.progress.wordle]

\* variant: the merge keeps the previous solvedGroups
updateConnectionsKeepSolvedGroups(prev, updates) ==
  [prev EXCEPT !.progress.connections =
     [(updates @@ prev.progress.connections) EXCEPT
        !.solvedGroups = prev.progress.connections.solvedGroups]]

\* variant: the merge keeps the previous triedSelections
updateConnectionsKeepTried(prev, updates) ==
  [prev EXCEPT !.progress.connections =
     [(updates @@ prev.progress.connections) EXCEPT
        !.triedSelections = prev.progress.connections.triedSelections]]

updateConnectionsProgress(prev, updates) ==
  [prev EXCEPT !.progress.connections = updates @@ prev.progress.connections]

\* variant: the scoped reset keeps the selections already tried
resetConnectionsKeepTried(prev) ==
  [prev EXCEPT !.progress.connections =
     [initialConnections EXCEPT !.triedSelections = prev.progress.connections.triedSelections]]

resetConnectionsProgress(prev) ==
  [prev EXCEPT !.progress.connections = initialConnections]

\* variant: the full reset returns to the landing page
resetProgressToLanding == initialState

resetProgress == [initialState EXCEPT !.currentPage = "hub"]

(***************************************************************************)
(* GameContext: the allCompleted effect and getPuzzleStatus                *)
(***************************************************************************)
\* variant: the flag ignores the group puzzle
allCompleteNoGroup(s) ==
  /\ Every(s.progress.hegionit.solved)
  /\ s.progress.wordle.solved

allComplete(s) ==
  /\ Every(s.progress.hegionit.solved)
  /\ s.progress.wordle.solved
  /\ s.progress.connections.solved

getPuzzleStatus(s, puzzle) ==
  CASE puzzle = "hegionit" ->
         IF Every(s.progress.hegionit.solved) THEN "solved"
         ELSE IF Some(s.progress.hegionit.solved)
                 \/ \E i \in DOMAIN s.progress.hegionit.answers :
                       Len(s.progress.hegionit.answers[i]) > 0
              THEN "in-progress"
              ELSE "locked"
    [] puzzle = "wordle" ->
         IF s.progress.wordle.solved THEN "solved"
         ELSE IF Len(s.progress.wordle.attempts) > 0 THEN "in-progress"
              ELSE "locked"
    [] puzzle = "connections" ->
         IF s.progress.connections.solved THEN "solved"
         ELSE IF Len(s.progress.connections.solvedGroups) > 0
                 \/ s.progress.connections.attempts > 0
              THEN "in-progress"
              ELSE "locked"
    [] OTHER -> "locked"

(***************************************************************************)
(* Letters.  The final-form tables of the riddle page; the word page's     *)
(* tables hold the same five pairs.  Lower case stands for the regular     *)
(* form of a letter and upper case for its final form.                     *)
(***************************************************************************)
FINAL_FORMS == ("k" :> "K") @@ ("m" :> "M") @@ ("n" :> "N") @@ ("p" :> "P") @@ ("c" :> "C")

REGULAR_FORMS == ("K" :> "k") @@ ("M" :> "m") @@ ("N" :> "n") @@ ("P" :> "p") @@ ("C" :> "c")

IsSpace(ch) == ch = " "

RECURSIVE TrimStart(_)
TrimStart(s) == IF s # <<>> /\ IsSpace(Head(s)) THEN TrimStart(Tail(s)) ELSE s

Trim(s) == Reverse(TrimStart(Reverse(TrimStart(s))))

\* String.prototype.split(' '): the words between single spaces, empty words kept
RECURSIVE SplitFrom(_, _)
SplitFrom(s, word) ==
  IF s = <<>> THEN <<word>>
  ELSE IF IsSpace(Head(s)) THEN <<word>> \o SplitFrom(Tail(s), <<>>)
       ELSE SplitFrom(Tail(s), Append(word, Head(s)))

Split(s) == SplitFrom(s, <<>>)

\* Array.prototype.join(''): the concatenation of the letters, empty ones vanish
Join(letters) == SelectSeq(letters, LAMBDA ch : ch # "")

(***************************************************************************)
(* HegionitPage: the answer of the current riddle and its word segments    *)
(***************************************************************************)
reverseString(value) == Reverse(value)

normalizedAnswer(r) == reverseString(content.hegionit[r + 1])

getAnswerWithoutSpaces(r) == SelectSeq(normalizedAnswer(r), LAMBDA ch : ~IsSpace(ch))

RECURSIVE SegmentsFrom(_, _)
SegmentsFrom(words, cursor) ==
  IF words = <<>> THEN <<>>
  ELSE <<[startIndex |-> cursor, endIndex |-> cursor + Len(Head(words)) - 1]>>
         \o SegmentsFrom(Tail(words), cursor + Len(Head(words)))

getLogicalWordSegments(r) == SegmentsFrom(Split(normalizedAnswer(r)), 0)

\* the indices endIndex, endIndex - 1, ..., startIndex
RECURSIVE Descending(_, _)
Descending(from, to) ==
  IF from < to THEN <<>> ELSE <<from>> \o Descending(from - 1, to)

RECURSIVE ReadingOrderOf(_)
ReadingOrderOf(segments) ==
  IF segments = <<>> THEN <<>>
  ELSE Descending(Head(segments).endIndex, Head(segments).startIndex)
         \o ReadingOrderOf(Tail(segments))

\* variant: the boxes are taken in the order of their storage indices
getReadingOrderIndicesAscending(r) ==
  [k \in 1 .. Len(SelectSeq(normalizedAnswer(r), LAMBDA ch : ~IsSpace(ch))) |-> k - 1]

getReadingOrderIndices(r) == ReadingOrderOf(getLogicalWordSegments(r))

isEndOfWordIndex(r, index) ==
  \E k \in DOMAIN getLogicalWordSegments(r) :
     getLogicalWordSegments(r)[k].startIndex = index

\* raw is the text of the input box; the result is one letter or "" (empty)
normalizeHebrewFinalForm(r, raw, index) ==
  LET trimmed == Trim(raw)
      ch == IF trimmed = <<>> THEN "" ELSE trimmed[Len(trimmed)]
  IN IF ch = "" THEN ""
     ELSE IF isEndOfWordIndex(r, index)
          THEN IF ch \in DOMAIN FINAL_FORMS THEN FINAL_FORMS[ch] ELSE ch
          ELSE IF ch \in DOMAIN REGULAR_FORMS THEN REGULAR_FORMS[ch] ELSE ch

\* variant: the letters are saved as their plain concatenation
encodeAnswerJoined(letters) == Join(letters)

encodeAnswer(letters) ==
  [i \in DOMAIN letters |-> IF letters[i] # "" THEN letters[i] ELSE EMPTY_SENTINEL]

decodeAnswer(saved) ==
  [i \in DOMAIN saved |-> IF saved[i] = EMPTY_SENTINEL THEN "" ELSE saved[i]]

\* indexOf
RECURSIVE IndexFrom(_, _, _)
IndexFrom(s, v, k) ==
  IF k > Len(s) THEN -1 ELSE IF s[k] = v THEN k - 1 ELSE IndexFrom(s, v, k + 1)

IndexOf(s, v) == IndexFrom(s, v, 1)

\* order[p], order[p - 1], ..., order[0]: the first index that is not locked, or -1 (null)
RECURSIVE PrevUnlocked(_, _, _)
PrevUnlocked(order, p, locked) ==
  IF p < 0 THEN -1
  ELSE IF order[p + 1] \notin locked THEN order[p + 1]
       ELSE PrevUnlocked(order, p - 1, locked)

getPrevIndexInReadingOrder(r, locked, fromIndex) ==
  LET order == getReadingOrderIndices(r)
      pos == IndexOf(order, fromIndex)
  IN IF pos <= 0 THEN -1 ELSE PrevUnlocked(order, pos - 1, locked)

RECURSIVE CorrectFrom(_, _, _)
CorrectFrom(letters, answerWithoutSpaces, i) ==
  IF ~(i < Len(letters) /\ i < Len(answerWithoutSpaces)) THEN {}
  ELSE (IF letters[i + 1] # "" /\ letters[i + 1] = answerWithoutSpaces[i + 1] THEN {i} ELSE {})
         \cup CorrectFrom(letters, answerWithoutSpaces, i + 1)

\* variant: every filled position counts as correct
getCorrectIndicesFilled(letters, answerWithoutSpaces) ==
  {i \in 0 .. (Len(letters) - 1) : i < Len(answerWithoutSpaces) /\ letters[i + 1] # ""}

getCorrectIndices(letters, answerWithoutSpaces) == CorrectFrom(letters, answerWithoutSpaces, 0)

(***************************************************************************)
(* Bounds of the model                                                     *)
(***************************************************************************)
MaxTries == 3

(***************************************************************************)
(* The provider's effects.  Every setState call schedules a commit; its    *)
(* effects run before the next event is handled: the persistence effect    *)
(* writes the state just committed, then the allCompleted effect compares  *)
(* the flag and, when it differs, sets it (a further commit).              *)
(***************************************************************************)
Snapshot(s) == [kind |-> "json", parsed |-> s]

\* state.progress.hegionit.solved can be read
HasRiddleFlags(s) ==
  "hegionit" \in DOMAIN s.progress /\ "solved" \in DOMAIN s.progress.hegionit

\* variant: the state is written once the allCompleted flag has settled, and
\* not after a commit that the allCompleted effect follows with its own
EffectsWriteSettled ==
  /\ pc = "effects"
  /\ IF ~HasRiddleFlags(state)
     THEN /\ storage' = Snapshot(state)
          /\ state' = state
          /\ pc' = "crashed"
     ELSE IF "allCompleted" \notin DOMAIN state \/ allComplete(state) # state.allCompleted
          THEN /\ storage' = storage
               /\ state' = [allCompleted |-> allComplete(state)] @@ state
               /\ pc' = "effects"
          ELSE /\ storage' = Snapshot(state)
               /\ state' = state
               /\ pc' = "idle"
  /\ UNCHANGED <<pageVars, content, last, hinted>>

Effects ==
  /\ pc = "effects"
  /\ storage' = Snapshot(state)
  /\ IF ~HasRiddleFlags(state)
     THEN \* TypeError in the allCompleted effect: the tree is unmounted
          /\ state' = state
          /\ pc' = "crashed"
     ELSE IF "allCompleted" \notin DOMAIN state \/ allComplete(state) # state.allCompleted
          THEN /\ state' = [allCompleted |-> allComplete(state)] @@ state
               /\ pc' = "effects"
          ELSE /\ state' = state
               /\ pc' = "idle"
  /\ UNCHANGED <<pageVars, content, last, hinted>>

(***************************************************************************)
(* The provider's initializer.  localStorage holds nothing ("none"), a     *)
(* text JSON.parse rejects ("invalid"), the text null ("null"), or the     *)
(* text of an object ("json", parsed being the object: a record of the     *)
(* fields present).                                                         *)
(***************************************************************************)
\* obj.field, an absent field (and the field of an absent object) reading as
\* an object without fields
FieldOr(obj, field) == IF field \in DOMAIN obj THEN obj[field] ELSE <<>>

\* variant: the defaults are spread over the saved word and group records
loadStateDefaultsLast(saved) ==
  IF saved.kind \in {"none", "invalid", "null"} THEN initialState
  ELSE LET parsed == saved.parsed
           parsedProgress == FieldOr(parsed, "progress")
           parsedConnections == FieldOr(parsedProgress, "connections")
           triedSelections ==
             IF "triedSelections" \in DOMAIN parsedConnections
             THEN parsedConnections.triedSelections ELSE <<>>
       IN [progress |->
             [wordle      |-> initialWordle @@ FieldOr(parsedProgress, "wordle"),
              connections |-> [triedSelections |-> triedSelections]
                                @@ initialConnections @@ parsedConnections]
               @@ parsedProgress]
            @@ parsed

loadState(saved) ==
  IF saved.kind \in {"none", "invalid", "null"} THEN initialState
  ELSE LET parsed == saved.parsed
           parsedProgress == FieldOr(parsed, "progress")
           parsedConnections == FieldOr(parsedProgress, "connections")
           triedSelections ==
             \* Array.isArray(parsed.progress?.connections?.triedSelections)
             IF "triedSelections" \in DOMAIN parsedConnections
             THEN parsedConnections.triedSelections ELSE <<>>
       IN [progress |->
             [wordle      |-> FieldOr(parsedProgress, "wordle") @@ initialWordle,
              connections |-> [triedSelections |-> triedSelections]
                                @@ parsedConnections @@ initialConnections]
               @@ parsedProgress]
            @@ parsed

(***************************************************************************)
(* HegionitPage (the riddle page)                                          *)
(***************************************************************************)
hegionitUnmounted ==
  [inputLetters |-> <<>>, lockedIndices |-> {}, didInitForRiddle |-> -1]

currentRiddleIndex == state.progress.hegionit.currentRiddle

Positions(r) == 0 .. (Len(getAnswerWithoutSpaces(r)) - 1)

SavedLocked(hp, r) ==
  IF r \in DOMAIN hp.lockedIndices THEN hp.lockedIndices[r] ELSE {}

\* variant: the restore effect takes a solved riddle through the path of the
\* unsolved ones
HegionitRestoreUnsolvedPath(page, hp) ==
  LET r == hp.currentRiddle
      answerWithoutSpaces == getAnswerWithoutSpaces(r)
      answerLength == Len(answerWithoutSpaces)
      decoded == decodeAnswer(hp.answers[r + 1])
      locked == {i \in SavedLocked(hp, r) : i >= 0 /\ i < answerLength}
      newLetters ==
        [k \in 1 .. answerLength |->
           IF (k - 1) \in locked
           THEN normalizeHebrewFinalForm(r, <<answerWithoutSpaces[k]>>, k - 1)
           ELSE IF k <= Len(decoded) THEN decoded[k] ELSE ""]
  IN IF ~hp.solved[r + 1] /\ page.didInitForRiddle = r
     THEN page
     ELSE [inputLetters |-> newLetters,
           lockedIndices |-> locked,
           didInitForRiddle |-> r]

\* the restore effect of the page, for the progress record hp
HegionitRestore(page, hp) ==
  LET r == hp.currentRiddle
      answerWithoutSpaces == getAnswerWithoutSpaces(r)
      answerLength == Len(answerWithoutSpaces)
      isSolved == hp.solved[r + 1]
      decoded == decodeAnswer(hp.answers[r + 1])
      locked == {i \in SavedLocked(hp, r) : i >= 0 /\ i < answerLength}
      newLetters ==
        [k \in 1 .. answerLength |->
           IF (k - 1) \in locked
           THEN normalizeHebrewFinalForm(r, <<answerWithoutSpaces[k]>>, k - 1)
           ELSE IF k <= Len(decoded) THEN decoded[k] ELSE ""]
  IN IF ~isSolved /\ page.didInitForRiddle = r
     THEN page
     ELSE IF isSolved /\ r \in DOMAIN hp.solvedLetters
                      /\ Len(hp.solvedLetters[r]) = answerLength
          THEN [inputLetters |-> hp.solvedLetters[r],
                lockedIndices |-> 0 .. (answerLength - 1),
                didInitForRiddle |-> r]
          ELSE [inputLetters |-> newLetters,
                lockedIndices |-> locked,
                didInitForRiddle |-> r]

\* a handler of the page committed the store state s and set the local state to
\* page; depsChanged tells whether a dependency of the restore effect changed
\* (currentRiddle, or the solved, solvedLetters or lockedIndices object)
HegionitCommit(s, page, depsChanged) ==
  /\ state' = s
  /\ hegionitPage' = IF depsChanged THEN HegionitRestore(page, s.progress.hegionit) ELSE page
  /\ pc' = "effects"
  /\ UNCHANGED <<storage, wordlePage, connectionsPage, content, hinted>>

NoChange(op, hit) ==
  /\ last' = [op |-> op, hit |-> hit]
  /\ UNCHANGED <<state, storage, pc, pageVars, content, hinted>>

AnswersWith(letters) ==
  [answers |-> SetAt(state.progress.hegionit.answers, currentRiddleIndex, encodeAnswer(letters))]

OnHegionit == pc = "idle" /\ state.currentPage = "hegionit"

handleLetterChange(index, value) ==
  /\ OnHegionit
  /\ IF state.progress.hegionit.solved[currentRiddleIndex + 1]
        \/ index \in hegionitPage.lockedIndices
     THEN NoChange("handleLetterChange", "ignored")
     ELSE LET normalized == normalizeHebrewFinalForm(currentRiddleIndex, value, index)
              newLetters == SetAt(hegionitPage.inputLetters, index, normalized)
          IN /\ HegionitCommit(updateHegionitProgress(state, AnswersWith(newLetters)),
                               [hegionitPage EXCEPT !.inputLetters = newLetters],
                               FALSE)
             /\ last' = [op |-> "handleLetterChange", hit |-> "typed"]

\* Backspace in an empty box: the previous unlocked box in reading order is emptied
handleKeyDown(index) ==
  /\ OnHegionit
  /\ IF index \in hegionitPage.lockedIndices \/ hegionitPage.inputLetters[index + 1] # ""
     THEN NoChange("handleKeyDown", "ignored")
     ELSE LET prevIndex == getPrevIndexInReadingOrder(currentRiddleIndex,
                                                      hegionitPage.lockedIndices, index)
              newLetters == SetAt(hegionitPage.inputLetters, prevIndex, "")
          IN IF prevIndex = -1
             THEN NoChange("handleKeyDown", "ignored")
             ELSE /\ HegionitCommit(updateHegionitProgress(state, AnswersWith(newLetters)),
                                    [hegionitPage EXCEPT !.inputLetters = newLetters],
                                    FALSE)
                  /\ last' = [op |-> "handleKeyDown", hit |-> "deleted"]

HegionitSubmit ==
  /\ OnHegionit
  /\ SumSeq(state.progress.hegionit.tries) < MaxTries
  /\ LET r == currentRiddleIndex
         progress == state.progress.hegionit
         inputLetters == hegionitPage.inputLetters
         typedWord == Join(inputLetters)
         answerWithoutSpaces == getAnswerWithoutSpaces(r)
         newTries == SetAt(progress.tries, r, progress.tries[r + 1] + 1)
         counted == updateHegionitProgress(state, [tries |-> newTries])
         correctIndices == getCorrectIndices(inputLetters, answerWithoutSpaces)
         newLocked == hegionitPage.lockedIndices \cup correctIndices
         newLetters ==
           [k \in DOMAIN inputLetters |->
              IF (k - 1) \in correctIndices
              THEN normalizeHebrewFinalForm(r, <<answerWithoutSpaces[k]>>, k - 1)
              ELSE inputLetters[k]]
     IN IF typedWord = answerWithoutSpaces
        THEN /\ HegionitCommit(
                  updateHegionitProgress(counted,
                    [solved |-> SetAt(progress.solved, r, TRUE),
                     solvedLetters |-> (r :> inputLetters) @@ progress.solvedLetters]),
                  hegionitPage, TRUE)
             /\ last' = [op |-> "handleSubmit", hit |-> "correct"]
        ELSE IF correctIndices # {}
             THEN /\ HegionitCommit(
                       updateHegionitProgress(counted,
                         [lockedIndices |-> (r :> newLocked) @@ progress.lockedIndices,
                          answers |-> SetAt(progress.answers, r, encodeAnswer(newLetters))]),
                       [hegionitPage EXCEPT !.inputLetters = newLetters,
                                            !.lockedIndices = newLocked],
                       TRUE)
                  /\ last' = [op |-> "handleSubmit", hit |-> "wrong"]
             ELSE /\ HegionitCommit(counted, hegionitPage, FALSE)
                  /\ last' = [op |-> "handleSubmit", hit |-> "wrong"]

\* variant: the clear button empties the locked boxes too
clearedLettersAll(inputLetters, lockedIndices) ==
  [k \in DOMAIN inputLetters |-> ""]

\* inputLetters.map((letter, i) => lockedIndices.has(i) ? letter : '')
clearedLetters(inputLetters, lockedIndices) ==
  [k \in DOMAIN inputLetters |->
     IF (k - 1) \in lockedIndices THEN inputLetters[k] ELSE ""]

HegionitClear ==
  /\ OnHegionit
  /\ IF state.progress.hegionit.solved[currentRiddleIndex + 1]
     THEN NoChange("handleClear", "ignored")
     ELSE LET newLetters ==
                clearedLetters(hegionitPage.inputLetters, hegionitPage.lockedIndices)
          IN /\ HegionitCommit(updateHegionitProgress(state, AnswersWith(newLetters)),
                               [hegionitPage EXCEPT !.inputLetters = newLetters],
                               FALSE)
             /\ last' = [op |-> "handleClear", hit |-> "cleared"]

\* the first index of order that is neither locked nor filled, or -1
RECURSIVE FirstEmpty(_, _, _)
FirstEmpty(order, locked, letters) ==
  IF order = <<>> THEN -1
  ELSE IF Head(order) \notin locked /\ letters[Head(order) + 1] = "" THEN Head(order)
       ELSE FirstEmpty(Tail(order), locked, letters)

\* variant: the cap lets one more hint through
hintCapReachedLate(currentHints) == currentHints > HintCap

\* currentHints >= 2
hintCapReached(currentHints) == currentHints >= HintCap

HegionitHint ==
  /\ OnHegionit
  /\ LET r == currentRiddleIndex
         progress == state.progress.hegionit
         currentHints == progress.hintsUsed[r + 1]
         answerWithoutSpaces == getAnswerWithoutSpaces(r)
         targetIndex == FirstEmpty(getReadingOrderIndices(r),
                                   hegionitPage.lockedIndices, hegionitPage.inputLetters)
         newLetters == SetAt(hegionitPage.inputLetters, targetIndex,
                             normalizeHebrewFinalForm(r, <<answerWithoutSpaces[targetIndex + 1]>>,
                                                      targetIndex))
         newLocked == hegionitPage.lockedIndices \cup {targetIndex}
     IN IF progress.solved[r + 1]
        THEN NoChange("handleHint", "ignored")
        ELSE IF hintCapReached(currentHints)
             THEN NoChange("handleHint", "hintCap")
             ELSE IF targetIndex = -1
                  THEN NoChange("handleHint", "noEmpty")
                  ELSE /\ HegionitCommit(
                            updateHegionitProgress(state,
                              [hintsUsed |-> SetAt(progress.hintsUsed, r, currentHints + 1),
                               lockedIndices |-> (r :> newLocked) @@ progress.lockedIndices,
                               answers |-> SetAt(progress.answers, r, encodeAnswer(newLetters))]),
                            [hegionitPage EXCEPT !.inputLetters = newLetters,
                                                 !.lockedIndices = newLocked],
                            TRUE)
                       /\ last' = [op |-> "handleHint", hit |-> "revealed"]

\* variant: the arrows stop at the first and at the last riddle
navigateRiddleClamping(direction) ==
  /\ OnHegionit
  /\ LET newIndex == IF direction = "prev"
                     THEN IF currentRiddleIndex - 1 > 0 THEN currentRiddleIndex - 1 ELSE 0
                     ELSE IF currentRiddleIndex + 1 < Len(content.hegionit) - 1
                          THEN currentRiddleIndex + 1 ELSE Len(content.hegionit) - 1
     IN /\ HegionitCommit(updateHegionitProgress(state, [currentRiddle |-> newIndex]),
                          hegionitPage, newIndex # currentRiddleIndex)
        /\ last' = [op |-> "navigateRiddle", hit |-> direction]

navigateRiddle(direction) ==
  /\ OnHegionit
  /\ LET newIndex == IF direction = "next"
                     THEN (currentRiddleIndex + 1) % Len(content.hegionit)
                     ELSE (currentRiddleIndex - 1 + Len(content.hegionit)) % Len(content.hegionit)
     IN /\ HegionitCommit(updateHegionitProgress(state, [currentRiddle |-> newIndex]),
                          hegionitPage, newIndex # currentRiddleIndex)
        /\ last' = [op |-> "navigateRiddle", hit |-> direction]

\* a progress dot
selectRiddle(i) ==
  /\ OnHegionit
  /\ HegionitCommit(updateHegionitProgress(state, [currentRiddle |-> i]),
                    hegionitPage, i # currentRiddleIndex)
  /\ last' = [op |-> "selectRiddle", hit |-> "dot"]

(***************************************************************************)
(* WordlePage (the word page): the evaluator                               *)
(***************************************************************************)
reverseWord(word) == Reverse(word)

targetWord == reverseWord(content.wordle)

\* variant: the letters are compared as typed
normalizeWordAsTyped(word) == word

normalizeWord(word) ==
  [i \in DOMAIN word |->
     IF word[i] \in DOMAIN REGULAR_FORMS THEN REGULAR_FORMS[word[i]] ELSE word[i]]

\* variant: an absent letter outranks the other statuses
getPriorityAbsentOnTop(status) ==
  CASE status = "correct" -> 3
    [] status = "wrong-place" -> 2
    [] status = "wrong" -> 4
    [] OTHER -> 0

getPriority(status) ==
  CASE status = "correct" -> 3
    [] status = "wrong-place" -> 2
    [] status = "wrong" -> 1
    [] OTHER -> 0

\* first pass: the positions whose letter equals the target's letter there
ExactMatches(normalizedWord, targetLetters) ==
  {i \in 0 .. (Len(normalizedWord) - 1) :
     i < Len(targetLetters) /\ normalizedWord[i + 1] = targetLetters[i + 1]}

\* targetLetters.findIndex((t, j) => t === letter && !usedIndices.has(j)), -1 if none
RECURSIVE FindUnused(_, _, _, _)
FindUnused(targetLetters, letter, usedIndices, j) ==
  IF j >= Len(targetLetters) THEN -1
  ELSE IF targetLetters[j + 1] = letter /\ j \notin usedIndices THEN j
       ELSE FindUnused(targetLetters, letter, usedIndices, j + 1)

\* variant: a target position found in the second pass is not marked as used
RECURSIVE SecondPassNotConsuming(_, _, _, _, _)
SecondPassNotConsuming(normalizedWord, targetLetters, exact, usedIndices, i) ==
  IF i >= Len(normalizedWord) THEN <<>>
  ELSE IF i \in exact
       THEN <<"correct">> \o SecondPassNotConsuming(normalizedWord, targetLetters, exact,
                                                    usedIndices, i + 1)
       ELSE LET targetIndex == FindUnused(targetLetters, normalizedWord[i + 1], usedIndices, 0)
            IN IF targetIndex # -1
               THEN <<"wrong-place">> \o SecondPassNotConsuming(normalizedWord, targetLetters,
                                                                exact, usedIndices, i + 1)
               ELSE <<"wrong">> \o SecondPassNotConsuming(normalizedWord, targetLetters, exact,
                                                          usedIndices, i + 1)

\* second pass, from position i on: the statuses of the positions i, i + 1, ...
RECURSIVE SecondPass(_, _, _, _, _)
SecondPass(normalizedWord, targetLetters, exact, usedIndices, i) ==
  IF i >= Len(normalizedWord) THEN <<>>
  ELSE IF i \in exact
       THEN <<"correct">> \o SecondPass(normalizedWord, targetLetters, exact, usedIndices, i + 1)
       ELSE LET targetIndex == FindUnused(targetLetters, normalizedWord[i + 1], usedIndices, 0)
            IN IF targetIndex # -1
               THEN <<"wrong-place">> \o SecondPass(normalizedWord, targetLetters, exact,
                                                    usedIndices \cup {targetIndex}, i + 1)
               ELSE <<"wrong">> \o SecondPass(normalizedWord, targetLetters, exact,
                                              usedIndices, i + 1)

\* variant: the second pass starts with no target position used, so a letter
\* matched exactly can be matched again
evaluateAgainstFresh(word, target) ==
  LET normalizedTarget == normalizeWord(target)
      normalizedWord == normalizeWord(word)
      exact == ExactMatches(normalizedWord, normalizedTarget)
      statuses == SecondPass(normalizedWord, normalizedTarget, exact, {}, 0)
  IN [i \in DOMAIN word |-> [letter |-> word[i], status |-> statuses[i]]]

evaluateAgainst(word, target) ==
  LET normalizedTarget == normalizeWord(target)
      normalizedWord == normalizeWord(word)
      exact == ExactMatches(normalizedWord, normalizedTarget)
      statuses == SecondPass(normalizedWord, normalizedTarget, exact, exact, 0)
  IN [i \in DOMAIN word |-> [letter |-> word[i], status |-> statuses[i]]]

evaluateWord(word) == evaluateAgainst(word, targetWord)

\* the keyboard status after folding the letters of one evaluated guess into it
RECURSIVE FoldKeyboard(_, _)
FoldKeyboard(keyboardStatus, evaluated) ==
  IF evaluated = <<>> THEN keyboardStatus
  ELSE LET letter == Head(evaluated).letter
           status == Head(evaluated).status
           normalLetter == IF letter \in DOMAIN REGULAR_FORMS THEN REGULAR_FORMS[letter] ELSE letter
           upgrade == normalLetter \notin DOMAIN keyboardStatus
                        \/ getPriority(status) > getPriority(keyboardStatus[normalLetter])
       IN FoldKeyboard(IF upgrade THEN (normalLetter :> status) @@ keyboardStatus
                       ELSE keyboardStatus,
                       Tail(evaluated))

RECURSIVE RebuildKeyboard(_, _)
RebuildKeyboard(keyboardStatus, words) ==
  IF words = <<>> THEN keyboardStatus
  ELSE RebuildKeyboard(FoldKeyboard(keyboardStatus, evaluateWord(Head(words))), Tail(words))

\* the first filled position from index 0, or -1
RECURSIVE FirstFilled(_, _)
FirstFilled(letters, i) ==
  IF i >= Len(letters) THEN -1
  ELSE IF letters[i + 1] # "" THEN i ELSE FirstFilled(letters, i + 1)

\* the last empty position from the right, or -1
RECURSIVE LastEmpty(_, _)
LastEmpty(letters, i) ==
  IF i < 0 THEN -1
  ELSE IF i >= Len(letters) \/ letters[i + 1] = "" THEN i ELSE LastEmpty(letters, i - 1)

applyFinalForms(letters) ==
  LET lastFilledIndex == FirstFilled(letters, 0)
  IN Join([i \in DOMAIN letters |->
             IF (i - 1) = lastFilledIndex /\ letters[i] \in DOMAIN FINAL_FORMS
             THEN FINAL_FORMS[letters[i]] ELSE letters[i]])

(***************************************************************************)
(* WordlePage: local state and handlers                                    *)
(***************************************************************************)
NumGuesses == 3

\* the guesses the player may type (index 0 first), as many as NumGuesses
GuessList ==
  << <<"m", "b", "a", "a", "b">>,
     <<"a", "a", "b", "b", "m">>,
     <<"b", "b", "b", "b", "b">>,
     <<"k", "a", "m", "a", "a">>,
     <<"m", "b", "a", "b", "a">> >>

Guesses == {GuessList[g] : g \in 1 .. NumGuesses}

Keys == UNION {Range(w) : w \in Guesses}

\* the filled cells of letters agree with the guess w
Agrees(letters, w) == \A i \in DOMAIN letters : letters[i] = "" \/ letters[i] = w[i]

wordleUnmounted ==
  [attempts |-> <<>>, currentAttempt |-> Fill(wordLength, ""), keyboardStatus |-> <<>>]

\* the page as mounted for the word record wp: the restore effect
WordleMount(wp) ==
  IF Len(wp.attempts) > 0
  THEN [wordleUnmounted EXCEPT
          !.attempts = [i \in DOMAIN wp.attempts |-> evaluateWord(wp.attempts[i])],
          !.keyboardStatus = RebuildKeyboard(<<>>, wp.attempts)]
  ELSE wordleUnmounted

OnWordle == pc = "idle" /\ state.currentPage = "wordle"

WordleCommit(s, page) ==
  /\ state' = s
  /\ wordlePage' = page
  /\ pc' = "effects"
  /\ UNCHANGED <<storage, hegionitPage, connectionsPage, content, hinted>>

WordleLocal(page) ==
  /\ wordlePage' = page
  /\ UNCHANGED <<state, storage, pc, hegionitPage, connectionsPage, content, hinted>>

\* variant: the puzzle fails one attempt late
attemptsExhaustedLate(newAttempts) == Len(newAttempts) > maxAttempts

\* newAttempts.length >= maxAttempts
attemptsExhausted(newAttempts) == Len(newAttempts) >= maxAttempts

\* variant: the new word replaces the words saved before
savedAttemptsNewestOnly(progress, wordWithFinals) == <<wordWithFinals>>

\* [...progress.attempts, wordWithFinals]
savedAttempts(progress, wordWithFinals) == Append(progress.attempts, wordWithFinals)

\* variant: a key is taken whenever a row is left, solved or not
KeyPressBodyWhileRowsLeft(op, letter) ==
  LET currentAttempt == wordlePage.currentAttempt
      insertPos == LastEmpty(currentAttempt, wordLength - 1)
  IN IF Len(wordlePage.attempts) >= maxAttempts
     THEN NoChange(op, "ignored")
     ELSE IF insertPos # -1
          THEN /\ WordleLocal([wordlePage EXCEPT
                                 !.currentAttempt = SetAt(currentAttempt, insertPos, letter)])
               /\ last' = [op |-> op, hit |-> "typed"]
          ELSE NoChange(op, "full")

KeyPressBody(op, letter) ==
  LET progress == state.progress.wordle
      currentAttempt == wordlePage.currentAttempt
      insertPos == LastEmpty(currentAttempt, wordLength - 1)
  IN IF progress.solved \/ progress.failed \/ Len(wordlePage.attempts) >= maxAttempts
     THEN NoChange(op, "ignored")
     ELSE IF insertPos # -1
          THEN /\ WordleLocal([wordlePage EXCEPT
                                 !.currentAttempt = SetAt(currentAttempt, insertPos, letter)])
               /\ last' = [op |-> op, hit |-> "typed"]
          ELSE NoChange(op, "full")

BackspaceBody(op) ==
  LET progress == state.progress.wordle
      currentAttempt == wordlePage.currentAttempt
      removePos == FirstFilled(currentAttempt, 0)
  IN IF progress.solved \/ progress.failed
     THEN NoChange(op, "ignored")
     ELSE IF removePos # -1
          THEN /\ WordleLocal([wordlePage EXCEPT
                                 !.currentAttempt = SetAt(currentAttempt, removePos, "")])
               /\ last' = [op |-> op, hit |-> "deleted"]
          ELSE NoChange(op, "empty")

\* variant: a guess of any length is taken
SubmitBodyAnyLength(op) ==
  LET progress == state.progress.wordle
      currentAttempt == wordlePage.currentAttempt
      wordWithFinals == applyFinalForms(currentAttempt)
      evaluated == evaluateWord(wordWithFinals)
      newAttempts == Append(wordlePage.attempts, evaluated)
      newPage == [attempts |-> newAttempts,
                  currentAttempt |-> Fill(wordLength, ""),
                  keyboardStatus |-> FoldKeyboard(wordlePage.keyboardStatus, evaluated)]
      saved == updateWordleProgress(state,
                 [attempts |-> savedAttempts(progress, wordWithFinals)])
  IN IF progress.solved \/ progress.failed
     THEN NoChange(op, "ignored")
     ELSE IF normalizeWord(wordWithFinals) = normalizeWord(targetWord)
          THEN /\ WordleCommit(updateWordleProgress(saved,
                                 [solved |-> TRUE, failed |-> FALSE]), newPage)
               /\ last' = [op |-> op, hit |-> "win"]
          ELSE IF attemptsExhausted(newAttempts)
               THEN /\ WordleCommit(updateWordleProgress(saved, [failed |-> TRUE]),
                                    newPage)
                    /\ last' = [op |-> op, hit |-> "failed"]
               ELSE /\ WordleCommit(saved, newPage)
                    /\ last' = [op |-> op, hit |-> "wrong"]

SubmitBody(op) ==
  LET progress == state.progress.wordle
      currentAttempt == wordlePage.currentAttempt
      filledCount == Cardinality({i \in DOMAIN currentAttempt : currentAttempt[i] # ""})
      wordWithFinals == applyFinalForms(currentAttempt)
      evaluated == evaluateWord(wordWithFinals)
      newAttempts == Append(wordlePage.attempts, evaluated)
      newPage == [attempts |-> newAttempts,
                  currentAttempt |-> Fill(wordLength, ""),
                  keyboardStatus |-> FoldKeyboard(wordlePage.keyboardStatus, evaluated)]
      saved == updateWordleProgress(state,
                 [attempts |-> savedAttempts(progress, wordWithFinals)])
  IN IF progress.solved \/ progress.failed
     THEN NoChange(op, "ignored")
     ELSE IF filledCount # wordLength
          THEN NoChange(op, "incomplete")
          ELSE IF normalizeWord(wordWithFinals) = normalizeWord(targetWord)
               THEN /\ WordleCommit(updateWordleProgress(saved,
                                      [solved |-> TRUE, failed |-> FALSE]), newPage)
                    /\ last' = [op |-> op, hit |-> "win"]
               ELSE IF attemptsExhausted(newAttempts)
                    THEN /\ WordleCommit(updateWordleProgress(saved, [failed |-> TRUE]),
                                         newPage)
                         /\ last' = [op |-> op, hit |-> "failed"]
                    ELSE /\ WordleCommit(saved, newPage)
                         /\ last' = [op |-> op, hit |-> "wrong"]

\* the player types towards one of the guesses (a full row takes any key)
TowardsAGuess(letter) ==
  LET insertPos == LastEmpty(wordlePage.currentAttempt, wordLength - 1)
  IN insertPos = -1
     \/ \E w \in Guesses : Agrees(SetAt(wordlePage.currentAttempt, insertPos, letter), w)

\* a key of the on-screen keyboard
handleKeyPress(letter) ==
  /\ OnWordle
  /\ TowardsAGuess(letter)
  /\ KeyPressBody("handleKeyPress", letter)

handleBackspace == OnWordle /\ BackspaceBody("handleBackspace")

\* variant: the submit button takes a guess of any length
WordleSubmitAnyLength == OnWordle /\ SubmitBodyAnyLength("handleSubmit")

WordleSubmit == OnWordle /\ SubmitBody("handleSubmit")

\* variant: the restart leaves the solved flag as it is
restartWordleKeepSolved ==
  /\ OnWordle
  /\ WordleCommit(updateWordleProgress(state,
                    [failed |-> FALSE, attempts |-> <<>>, currentAttempt |-> <<>>]),
                  wordleUnmounted)
  /\ last' = [op |-> "restartWordle", hit |-> "restarted"]

\* variant: the restart keeps the attempts
restartWordleKeepAttempts ==
  /\ OnWordle
  /\ WordleCommit(updateWordleProgress(state,
                    [solved |-> FALSE, failed |-> FALSE, currentAttempt |-> <<>>]),
                  wordleUnmounted)
  /\ last' = [op |-> "restartWordle", hit |-> "restarted"]

restartWordle ==
  /\ OnWordle
  /\ WordleCommit(updateWordleProgress(state,
                    [solved |-> FALSE, failed |-> FALSE,
                     attempts |-> <<>>, currentAttempt |-> <<>>]),
                  wordleUnmounted)
  /\ last' = [op |-> "restartWordle", hit |-> "restarted"]

\* the restart button of the word page, rendered when the puzzle is failed
\* and not solved
restartWordleButton ==
  /\ state.progress.wordle.failed /\ ~state.progress.wordle.solved
  /\ restartWordle

\* the window's keydown listener; a letter key may be a final form
keydown(key) ==
  /\ OnWordle
  /\ IF state.progress.wordle.solved \/ state.progress.wordle.failed
     THEN NoChange("keydown", "ignored")
     ELSE IF key = "Enter" THEN SubmitBody("keydown")
          ELSE IF key = "Backspace" THEN BackspaceBody("keydown")
               ELSE LET normalLetter == IF key \in DOMAIN REGULAR_FORMS
                                        THEN REGULAR_FORMS[key] ELSE key
                    IN /\ TowardsAGuess(normalLetter)
                       /\ KeyPressBody("keydown", normalLetter)

PhysicalKeys == {"Enter", "Backspace"} \cup Keys \cup {FINAL_FORMS[k] : k \in Keys \cap DOMAIN FINAL_FORMS}

(***************************************************************************)
(* lib/connections: createSelectionKey                                     *)
(***************************************************************************)
\* the collation order of the characters (localeCompare)
Collation == <<" ", "a", "b", "c", "d", "e", "f", "g", "h", "j", "k", "l", "m", "n", "p">>

CharRank(ch) == IndexOf(Collation, ch)

\* a.localeCompare(b) <= 0
RECURSIVE LocaleLessEq(_, _)
LocaleLessEq(a, b) ==
  IF a = <<>> THEN TRUE
  ELSE IF b = <<>> THEN FALSE
       ELSE IF Head(a) = Head(b) THEN LocaleLessEq(Tail(a), Tail(b))
            ELSE CharRank(Head(a)) < CharRank(Head(b))

RECURSIVE InsertSorted(_, _)
InsertSorted(sorted, word) ==
  IF sorted = <<>> THEN <<word>>
  ELSE IF LocaleLessEq(word, Head(sorted)) THEN <<word>> \o sorted
       ELSE <<Head(sorted)>> \o InsertSorted(Tail(sorted), word)

RECURSIVE SortWords(_)
SortWords(words) ==
  IF words = <<>> THEN <<>> ELSE InsertSorted(SortWords(Tail(words)), Head(words))

\* Array.prototype.join('|')
RECURSIVE JoinWith(_)
JoinWith(words) ==
  IF words = <<>> THEN <<>>
  ELSE IF Len(words) = 1 THEN Head(words)
       ELSE Head(words) \o <<"|">> \o JoinWith(Tail(words))

\* variant: the items are joined with nothing between them
createSelectionKeyUndelimited(words) ==
  LET trimmed == [i \in DOMAIN words |-> Trim(words[i])]
      nonEmpty == SortWords(SelectSeq(trimmed, LAMBDA w : w # <<>>))
      RECURSIVE Concat(_)
      Concat(ws) == IF ws = <<>> THEN <<>> ELSE Head(ws) \o Concat(Tail(ws))
  IN Concat(nonEmpty)

\* variant: the words are not trimmed before they are filtered and sorted
createSelectionKeyUntrimmed(words) ==
  JoinWith(SortWords(SelectSeq(words, LAMBDA w : w # <<>>)))

\* variant: the key keeps the order in which the words were picked
createSelectionKeyUnsorted(words) ==
  JoinWith(SelectSeq([i \in DOMAIN words |-> Trim(words[i])], LAMBDA w : w # <<>>))

createSelectionKey(words) ==
  LET trimmed == [i \in DOMAIN words |-> Trim(words[i])]
      nonEmpty == SelectSeq(trimmed, LAMBDA w : w # <<>>)
  IN JoinWith(SortWords(nonEmpty))

(***************************************************************************)
(* ConnectionsPage (the grouping page)                                     *)
(***************************************************************************)
groups == content.groups

allWords == UNION {Range(groups[g].words) : g \in DOMAIN groups}

GroupIdx == 0 .. (Len(groups) - 1)

Includes(arr, v) == v \in Range(arr)

WordsOfSolved(solvedGroups) ==
  UNION {Range(groups[solvedGroups[k] + 1].words) : k \in DOMAIN solvedGroups}

connectionsUnmounted ==
  [availableWords |-> {}, selectedWords |-> <<>>, solvedGroups |-> <<>>, attempts |-> 0]

\* variant: the effect leaves the page's count of attempts as it is
ConnectionsRestoreKeepsAttempts(page, cp) ==
  [availableWords |-> allWords \ WordsOfSolved(cp.solvedGroups),
   selectedWords  |-> IF cp.failed THEN <<>> ELSE page.selectedWords,
   solvedGroups   |-> cp.solvedGroups,
   attempts       |-> page.attempts]

\* the effect on [shuffledWords, progress.failed], for the group record cp
ConnectionsRestore(page, cp) ==
  [availableWords |-> allWords \ WordsOfSolved(cp.solvedGroups),
   selectedWords  |-> IF cp.failed THEN <<>> ELSE page.selectedWords,
   solvedGroups   |-> cp.solvedGroups,
   attempts       |-> cp.attempts]

ConnectionsMount(cp) ==
  ConnectionsRestore([connectionsUnmounted EXCEPT !.attempts = cp.attempts], cp)

OnConnections == pc = "idle" /\ state.currentPage = "connections"

\* a handler committed the store state s and set the local state to page; the
\* restore effect runs again when progress.failed changed
ConnectionsCommit(s, page) ==
  /\ state' = s
  /\ connectionsPage' =
       IF s.progress.connections.failed # state.progress.connections.failed
       THEN ConnectionsRestore(page, s.progress.connections)
       ELSE page
  /\ pc' = "effects"
  /\ UNCHANGED <<storage, hegionitPage, wordlePage, content>>

ConnectionsLocal(page) ==
  /\ connectionsPage' = page
  /\ UNCHANGED <<state, storage, pc, hegionitPage, wordlePage, content, hinted>>

\* findIndex: the least index of the set, -1 if it is empty
FirstIndex(S) == IF S = {} THEN -1 ELSE CHOOSE g \in S : \A h \in S : g <= h

MatchCount(selectedWords, g) ==
  Cardinality({k \in DOMAIN selectedWords : Includes(groups[g + 1].words, selectedWords[k])})

Without(arr, v) == SelectSeq(arr, LAMBDA w : w # v)

Take(arr, n) == SubSeq(arr, 1, IF Len(arr) < n THEN Len(arr) ELSE n)

(***************************************************************************)
(* ConnectionsPage: the selections the player may build.  A selection is   *)
(* built word by word towards one of the candidates: the words of a group  *)
(* in order, or one of the first NumWrong wrong selections below (given by *)
(* word numbers), which are taken up in the order of the list.             *)
(***************************************************************************)
NumWrong == 8

WrongList ==
  << <<0, 1, 2, 4>>, <<4, 2, 1, 0>>, <<0, 1, 2, 5>>, <<0, 1, 4, 5>>, <<0, 1, 2, 6>>,
     <<0, 1, 2, 7>>, <<0, 1, 5, 6>>, <<0, 1, 2, 4>>, <<0, 1, 6, 7>>, <<1, 0, 7, 6>> >>

\* the candidates are fixed by the content, word number n being word n % 4 of
\* group n \div 4
WordAt(n) == Content.groups[(n \div SelectionSize) + 1].words[(n % SelectionSize) + 1]

WrongCandidate == [j \in 1 .. NumWrong |-> [k \in 1 .. SelectionSize |-> WordAt(WrongList[j][k])]]

WrongKeys == [j \in 1 .. NumWrong |-> createSelectionKey(WrongCandidate[j])]

GroupCandidate == [g \in 1 .. NumGroups |-> Content.groups[g].words]

IsPrefix(p, s) == Len(p) <= Len(s) /\ \A k \in DOMAIN p : p[k] = s[k]

\* the wrong candidate j is taken up once every candidate before it was submitted
TakenInOrder(j) ==
  \A h \in 1 .. (j - 1) : Includes(state.progress.connections.triedSelections, WrongKeys[h])

TowardsACandidate(selection) ==
  \/ \E g \in 1 .. NumGroups : IsPrefix(selection, GroupCandidate[g])
  \/ \E j \in 1 .. NumWrong : TakenInOrder(j) /\ IsPrefix(selection, WrongCandidate[j])

handleWordClick(word) ==
  /\ OnConnections
  /\ word \in connectionsPage.availableWords
  /\ LET progress == state.progress.connections
         selectedWords == connectionsPage.selectedWords
     IN IF progress.solved \/ progress.failed
        THEN NoChange("handleWordClick", "ignored")
        ELSE IF Includes(selectedWords, word)
             THEN /\ TowardsACandidate(Without(selectedWords, word))
                  /\ ConnectionsLocal([connectionsPage EXCEPT
                                         !.selectedWords = Without(selectedWords, word)])
                  /\ last' = [op |-> "handleWordClick", hit |-> "deselected"]
             ELSE IF Len(selectedWords) < SelectionSize
                  THEN /\ TowardsACandidate(Append(selectedWords, word))
                       /\ ConnectionsLocal([connectionsPage EXCEPT
                                              !.selectedWords = Append(selectedWords, word)])
                       /\ last' = [op |-> "handleWordClick", hit |-> "selected"]
                  ELSE NoChange("handleWordClick", "full")

\* the "clear selection" button
clearSelection ==
  /\ OnConnections
  /\ ConnectionsLocal([connectionsPage EXCEPT !.selectedWords = <<>>])
  /\ last' = [op |-> "clearSelection", hit |-> "cleared"]

\* variant: the puzzle fails one wrong selection later
isNowFailedLate(newAttempts) == newAttempts > maxAttempts

\* const isNowFailed = newAttempts >= maxAttempts
isNowFailed(newAttempts) == newAttempts >= maxAttempts

ConnectionsSubmit ==
  /\ OnConnections
  /\ LET progress == state.progress.connections
         selectedWords == connectionsPage.selectedWords
         almostCorrect ==
           \E g \in GroupIdx : /\ ~Includes(progress.solvedGroups, g)
                               /\ MatchCount(selectedWords, g) = 3
         selectionKey == createSelectionKey(selectedWords)
         triedSelections == progress.triedSelections
         alreadyTried == Includes(triedSelections, selectionKey)
         matchingGroupIndex ==
           FirstIndex({g \in GroupIdx :
                         /\ \A k \in DOMAIN selectedWords :
                               Includes(groups[g + 1].words, selectedWords[k])
                         /\ Len(selectedWords) = Len(groups[g + 1].words)})
         newSolvedGroups == Append(progress.solvedGroups, matchingGroupIndex)
         newAttempts == connectionsPage.attempts + 1
         nowFailed == isNowFailed(newAttempts)
     IN IF progress.solved \/ progress.failed
        THEN NoChange("handleSubmit", "ignored")
        ELSE IF Len(selectedWords) # SelectionSize
        THEN NoChange("handleSubmit", "notFour")
        ELSE IF matchingGroupIndex # -1 /\ ~Includes(progress.solvedGroups, matchingGroupIndex)
        THEN /\ ConnectionsCommit(
                  updateConnectionsProgress(state,
                    [solvedGroups     |-> newSolvedGroups,
                     solved           |-> Len(newSolvedGroups) = Len(groups),
                     failed           |-> FALSE,
                     triedSelections  |-> IF alreadyTried THEN triedSelections
                                          ELSE Append(triedSelections, selectionKey),
                     lastHintWords    |-> <<>>,
                     lastHintAttempts |-> -1]),
                  [connectionsPage EXCEPT
                     !.solvedGroups = Append(@, matchingGroupIndex),
                     !.availableWords = @ \ Range(selectedWords),
                     !.selectedWords = <<>>])
             /\ UNCHANGED hinted
             /\ last' = [op |-> "handleSubmit", hit |-> "correct"]
        ELSE IF alreadyTried
        THEN NoChange("handleSubmit", IF almostCorrect THEN "duplicateAlmost" ELSE "duplicate")
        ELSE /\ ConnectionsCommit(
                  updateConnectionsProgress(state,
                    [attempts        |-> newAttempts,
                     triedSelections |-> Append(triedSelections, selectionKey),
                     failed          |-> nowFailed]),
                  [connectionsPage EXCEPT
                     !.attempts = newAttempts,
                     !.selectedWords = IF nowFailed THEN <<>> ELSE @])
             /\ UNCHANGED hinted
             /\ last' = [op |-> "handleSubmit",
                         hit |-> IF nowFailed THEN "failed"
                                 ELSE IF almostCorrect THEN "almost" ELSE "wrong"]

\* variant: the hint button answers on a failed puzzle too
ConnectionsHintWhenFailed ==
  /\ OnConnections
  /\ LET progress == state.progress.connections
         availableWords == connectionsPage.availableWords
         storedHintWords == progress.lastHintWords
         isStoredHintStillValid ==
           /\ Len(storedHintWords) # 0
           /\ \A k \in DOMAIN storedHintWords : storedHintWords[k] \in availableWords
         unsolvedGroupIndex ==
           FirstIndex({g \in GroupIdx : ~Includes(progress.solvedGroups, g)})
         availableFromGroup ==
           SelectSeq(groups[unsolvedGroupIndex + 1].words, LAMBDA w : w \in availableWords)
         hintWords == Take(availableFromGroup, 2)
     IN IF progress.solved
        THEN NoChange("handleHint", "ignored")
        ELSE IF isStoredHintStillValid
        THEN /\ ConnectionsLocal([connectionsPage EXCEPT !.selectedWords = storedHintWords])
             /\ last' = [op |-> "handleHint", hit |-> "repeat"]
        ELSE IF progress.hintsUsed >= HintCap
        THEN NoChange("handleHint", "hintCap")
        ELSE IF unsolvedGroupIndex = -1
        THEN NoChange("handleHint", "none")
        ELSE IF Len(availableFromGroup) = 0
        THEN NoChange("handleHint", "none")
        ELSE /\ ConnectionsCommit(
                  updateConnectionsProgress(state,
                    [hintsUsed        |-> progress.hintsUsed + 1,
                     lastHintWords    |-> hintWords,
                     lastHintAttempts |-> connectionsPage.attempts]),
                  [connectionsPage EXCEPT !.selectedWords = hintWords])
             /\ hinted' = hintWords
             /\ last' = [op |-> "handleHint", hit |-> "hint"]

ConnectionsHint ==
  /\ OnConnections
  /\ LET progress == state.progress.connections
         availableWords == connectionsPage.availableWords
         storedHintWords == progress.lastHintWords
         isStoredHintStillValid ==
           /\ Len(storedHintWords) # 0
           /\ \A k \in DOMAIN storedHintWords : storedHintWords[k] \in availableWords
         unsolvedGroupIndex ==
           FirstIndex({g \in GroupIdx : ~Includes(progress.solvedGroups, g)})
         availableFromGroup ==
           SelectSeq(groups[unsolvedGroupIndex + 1].words, LAMBDA w : w \in availableWords)
         hintWords == Take(availableFromGroup, 2)
     IN IF progress.solved \/ progress.failed
        THEN NoChange("handleHint", "ignored")
        ELSE IF isStoredHintStillValid
        THEN /\ ConnectionsLocal([connectionsPage EXCEPT !.selectedWords = storedHintWords])
             /\ last' = [op |-> "handleHint", hit |-> "repeat"]
        ELSE IF progress.hintsUsed >= HintCap
        THEN NoChange("handleHint", "hintCap")
        ELSE IF unsolvedGroupIndex = -1
        THEN NoChange("handleHint", "none")
        ELSE IF Len(availableFromGroup) = 0
        THEN NoChange("handleHint", "none")
        ELSE /\ ConnectionsCommit(
                  updateConnectionsProgress(state,
                    [hintsUsed        |-> progress.hintsUsed + 1,
                     lastHintWords    |-> hintWords,
                     lastHintAttempts |-> connectionsPage.attempts]),
                  [connectionsPage EXCEPT !.selectedWords = hintWords])
             /\ hinted' = hintWords
             /\ last' = [op |-> "handleHint", hit |-> "hint"]

\* variant: the restart button is rendered whatever the puzzle's state
handleRestartConnectionsAlways ==
  /\ OnConnections
  /\ ConnectionsCommit(resetConnectionsProgress(state), connectionsPage)
  /\ hinted' = <<>>
  /\ last' = [op |-> "handleRestartConnections", hit |-> "restarted"]

\* the restart button, the handler's only caller, is rendered when the puzzle
\* is failed and not solved
handleRestartConnections ==
  /\ OnConnections
  /\ state.progress.connections.failed /\ ~state.progress.connections.solved
  /\ ConnectionsCommit(resetConnectionsProgress(state), connectionsPage)
  /\ hinted' = <<>>
  /\ last' = [op |-> "handleRestartConnections", hit |-> "restarted"]

(***************************************************************************)
(* Navigation: GameRouter mounts the page of currentPage, so a change of   *)
(* page discards the local state of the page left and mounts the new page  *)
(* from the store.                                                         *)
(***************************************************************************)
\* GameRouter: the page rendered for the state s (LandingPage by default)
PageOf(s) ==
  IF "currentPage" \in DOMAIN s /\ s.currentPage \in Pages THEN s.currentPage ELSE "landing"

HegionitMounted(s) ==
  IF PageOf(s) = "hegionit"
  THEN HegionitRestore(hegionitUnmounted, s.progress.hegionit) ELSE hegionitUnmounted

WordleMounted(s) ==
  IF PageOf(s) = "wordle" THEN WordleMount(s.progress.wordle) ELSE wordleUnmounted

ConnectionsMounted(s) ==
  IF PageOf(s) = "connections"
  THEN ConnectionsMount(s.progress.connections) ELSE connectionsUnmounted

MountPages(s) ==
  /\ hegionitPage' = HegionitMounted(s)
  /\ wordlePage' = WordleMounted(s)
  /\ connectionsPage' = ConnectionsMounted(s)

\* variant: the hub renders the surprise button whatever the flag
OfferedSurpriseAlways(from, to) ==
  \/ from = "landing" /\ to = "hub"
  \/ from = "hub" /\ to \in {"landing", "hegionit", "wordle", "connections", "final"}
  \/ from \in {"hegionit", "wordle", "connections", "final"} /\ to = "hub"

\* the buttons of the pages that call setCurrentPage: from page `from` to page `to`
Offered(from, to) ==
  \/ from = "landing" /\ to = "hub"
  \/ from = "hub" /\ to \in {"landing", "hegionit", "wordle", "connections"}
  \/ from = "hub" /\ to = "final" /\ state.allCompleted
  \/ from \in {"hegionit", "wordle", "connections", "final"} /\ to = "hub"

navigate(to) ==
  /\ pc = "idle"
  /\ Offered(state.currentPage, to)
  /\ state' = setCurrentPage(state, to)
  /\ MountPages(state')
  /\ pc' = "effects"
  /\ last' = [op |-> "navigate", hit |-> to]
  /\ UNCHANGED <<storage, content, hinted>>

\* HubPage: the confirmed reset dialog
hubReset ==
  /\ pc = "idle"
  /\ state.currentPage = "hub"
  /\ state' = resetProgress
  /\ pc' = "effects"
  /\ last' = [op |-> "resetProgress", hit |-> "hub"]
  /\ hinted' = <<>>
  /\ UNCHANGED <<storage, pageVars, content>>

(***************************************************************************)
(* Initial states.  The provider's state is built from localStorage: on a  *)
(* first visit nothing is stored; on a later visit the snapshot of an      *)
(* earlier session is read.  The snapshots below are the records the pages *)
(* leave behind when a puzzle is solved at the first attempt.              *)
(***************************************************************************)
PlayedHegionit ==
  [ currentRiddle |-> NumRiddles - 1,
    solved        |-> Fill(NumRiddles, TRUE),
    hintsUsed     |-> Fill(NumRiddles, 0),
    tries         |-> Fill(NumRiddles, 1),
    answers       |-> [k \in 1 .. NumRiddles |-> getAnswerWithoutSpaces(k - 1)],
    lockedIndices |-> <<>>,
    solvedLetters |-> [r \in RiddleIdx |-> getAnswerWithoutSpaces(r)] ]

PlayedWordle ==
  [ solved |-> TRUE, failed |-> FALSE, attempts |-> <<targetWord>>, currentAttempt |-> <<>> ]

PlayedConnections ==
  [ solved           |-> TRUE,
    failed           |-> FALSE,
    solvedGroups     |-> [k \in 1 .. Len(groups) |-> k - 1],
    attempts         |-> 0,
    hintsUsed        |-> 0,
    lastHintWords    |-> <<>>,
    lastHintAttempts |-> -1,
    triedSelections  |-> [k \in 1 .. Len(groups) |-> createSelectionKey(groups[k].words)] ]

\* the state of a session that solved every puzzle but the given one and
\* stopped on the hub
ResumedWithout(puzzle) ==
  [ currentPage  |-> "hub",
    progress     |-> [ hegionit    |-> IF puzzle = "hegionit" THEN initialHegionit
                                       ELSE PlayedHegionit,
                       wordle      |-> IF puzzle = "wordle" THEN initialWordle
                                       ELSE PlayedWordle,
                       connections |-> IF puzzle = "connections" THEN initialConnections
                                       ELSE PlayedConnections ],
    allCompleted |-> FALSE ]

NothingStored == [kind |-> "none", parsed |-> <<>>]

InitFrom(stored) ==
  /\ content = Content
  /\ storage \in stored
  /\ state = loadState(storage)
  /\ pc = "effects"
  /\ hegionitPage = HegionitMounted(state)
  /\ wordlePage = WordleMounted(state)
  /\ connectionsPage = ConnectionsMounted(state)
  /\ last = [op |-> "init", hit |-> storage.kind]
  /\ hinted = <<>>

Init == InitFrom({NothingStored})

(***************************************************************************)
(* The store driven through its context API alone (useGame), no page       *)
(* mounted: each call is one commit followed by the provider's effects.     *)
(***************************************************************************)
StoreCommit(s, op) ==
  /\ pc = "idle"
  /\ state' = s
  /\ pc' = "effects"
  /\ last' = [op |-> op, hit |-> "store"]
  /\ UNCHANGED <<storage, pageVars, content, hinted>>

\* the partial updates the callers pass
HegionitUpdates ==
  {[solved |-> Fill(NumRiddles, b)] : b \in BOOLEAN}
    \cup {[currentRiddle |-> 1]}
    \cup {[lockedIndices |-> (j :> {0})] : j \in {0, 1}}
    \cup {[solvedLetters |-> (0 :> <<"a", "M">>), solved |-> <<TRUE, FALSE, FALSE>>]}
    \cup {[solvedLetters |-> (1 :> <<"a">>)]}

WordleUpdates ==
  { [solved |-> TRUE],
    [solved |-> FALSE, failed |-> TRUE, attempts |-> <<GuessList[1]>>] }

ConnectionsUpdates ==
  { [solved |-> TRUE],
    [solved |-> FALSE],
    [attempts |-> maxAttempts, failed |-> TRUE, solvedGroups |-> <<1>>,
     hintsUsed |-> 1, lastHintWords |-> Take(groups[1].words, 2), lastHintAttempts |-> 0,
     triedSelections |-> <<createSelectionKey(groups[2].words)>>] }

SetCurrentPage == \E page \in Pages : StoreCommit(setCurrentPage(state, page), "setCurrentPage")

UpdateHegionit ==
  \E updates \in HegionitUpdates :
     StoreCommit(updateHegionitProgress(state, updates), "updateHegionitProgress")

UpdateWordle ==
  \E updates \in WordleUpdates :
     StoreCommit(updateWordleProgress(state, updates), "updateWordleProgress")

UpdateConnections ==
  \E updates \in ConnectionsUpdates :
     StoreCommit(updateConnectionsProgress(state, updates), "updateConnectionsProgress")

ResetConnections == StoreCommit(resetConnectionsProgress(state), "resetConnectionsProgress")

ResetProgress == StoreCommit(resetProgress, "resetProgress")

NextStore ==
  \/ Effects
  \/ SetCurrentPage
  \/ UpdateHegionit
  \/ UpdateWordle
  \/ UpdateConnections
  \/ ResetConnections
  \/ ResetProgress

SpecStore == Init /\ [][NextStore]_vars

(***************************************************************************)
(* The riddle page as the player drives it: landing -> hub -> riddle page  *)
(* and back, and every handler of the page.                                 *)
(***************************************************************************)
Visit(pages) == \E to \in pages : navigate(to)

\* the player takes the riddles up in order: a riddle's boxes, hint, clear and
\* submit are used when every riddle before it is solved (any riddle may be
\* looked at, and the controls of a solved riddle may be tried)
InOrder ==
  \/ state.progress.hegionit.solved[currentRiddleIndex + 1]
  \/ \A j \in 0 .. (currentRiddleIndex - 1) : state.progress.hegionit.solved[j + 1]

NextRiddle ==
  \/ Effects
  \/ Visit({"hub", "hegionit"})
  \/ \E index \in Positions(currentRiddleIndex), value \in RawInputs :
        InOrder /\ handleLetterChange(index, value)
  \/ \E index \in Positions(currentRiddleIndex) : InOrder /\ handleKeyDown(index)
  \/ InOrder /\ HegionitSubmit
  \/ InOrder /\ HegionitClear
  \/ InOrder /\ HegionitHint
  \/ \E direction \in {"next", "prev"} : navigateRiddle(direction)
  \/ \E i \in RiddleIdx : selectRiddle(i)

InitRiddle == InitFrom({NothingStored, Snapshot(ResumedWithout("hegionit"))})

SpecRiddle == InitRiddle /\ [][NextRiddle]_vars

(***************************************************************************)
(* The riddle page over riddles whose answer text is written with either   *)
(* shape of a letter at the end of a word: RiddleAnswers, and the same     *)
(* answers with the base form there.                                        *)
(***************************************************************************)
BaseShapeAnswers ==
  [i \in DOMAIN RiddleAnswers |->
     [k \in DOMAIN RiddleAnswers[i] |->
        IF RiddleAnswers[i][k] \in DOMAIN REGULAR_FORMS
        THEN REGULAR_FORMS[RiddleAnswers[i][k]] ELSE RiddleAnswers[i][k]]]

InitShapes ==
  /\ content \in {Content, [Content EXCEPT !.hegionit = BaseShapeAnswers]}
  /\ storage = NothingStored
  /\ state = loadState(storage)
  /\ pc = "effects"
  /\ hegionitPage = HegionitMounted(state)
  /\ wordlePage = WordleMounted(state)
  /\ connectionsPage = ConnectionsMounted(state)
  /\ last = [op |-> "init", hit |-> storage.kind]
  /\ hinted = <<>>

SpecShapes == InitShapes /\ [][NextRiddle]_vars

(***************************************************************************)
(* The word page as the player drives it, in a first session or in one     *)
(* resumed with the other puzzles solved                                   *)
(***************************************************************************)
InitWord == InitFrom({NothingStored, Snapshot(ResumedWithout("wordle"))})

NextWord ==
  \/ Effects
  \/ Visit({"hub", "wordle"})
  \/ \E letter \in Keys : handleKeyPress(letter)
  \/ handleBackspace
  \/ WordleSubmit
  \/ restartWordle
  \/ \E key \in PhysicalKeys : keydown(key)

SpecWord == InitWord /\ [][NextWord]_vars

(***************************************************************************)
(* The word page with the controls as they are rendered: the restart       *)
(* button when the puzzle is failed, the hub's reset, and the keys of the   *)
(* window's listener                                                        *)
(***************************************************************************)
NextWordPlay ==
  \/ Effects
  \/ Visit({"hub", "wordle"})
  \/ hubReset
  \/ \E letter \in Keys : handleKeyPress(letter)
  \/ handleBackspace
  \/ WordleSubmit
  \/ restartWordleButton
  \/ \E key \in PhysicalKeys : keydown(key)

SpecWordPlay == InitWord /\ [][NextWordPlay]_vars

(***************************************************************************)
(* The grouping page as the player drives it, in a first session or in one *)
(* resumed with the other puzzles solved                                   *)
(***************************************************************************)
InitGroup == InitFrom({NothingStored, Snapshot(ResumedWithout("connections"))})

NextGroup ==
  \/ Effects
  \/ Visit({"hub", "connections"})
  \/ \E word \in allWords : handleWordClick(word)
  \/ clearSelection
  \/ ConnectionsSubmit
  \/ ConnectionsHint
  \/ handleRestartConnections
  \/ hubReset

SpecGroup == InitGroup /\ [][NextGroup]_vars

(***************************************************************************)
(* The provider constructed over what an earlier session, or an earlier    *)
(* version of the app, left in localStorage; then driven through its API.  *)
(***************************************************************************)
\* the shape the first version of the provider wrote: no lockedIndices, no
\* solvedLetters, no failed flags, no hint memory, no triedSelections
OldVersionState ==
  [ currentPage  |-> "hub",
    progress     |->
      [ hegionit    |-> [ currentRiddle |-> 1,
                          solved        |-> <<TRUE, FALSE, FALSE>>,
                          hintsUsed     |-> <<1, 0, 0>>,
                          answers       |-> <<getAnswerWithoutSpaces(0), <<>>, <<>>>> ],
        wordle      |-> [ solved |-> FALSE, attempts |-> <<GuessList[2]>>,
                          currentAttempt |-> <<>> ],
        connections |-> [ solved |-> FALSE, solvedGroups |-> <<0>>, attempts |-> 1,
                          hintsUsed |-> 1 ] ],
    allCompleted |-> FALSE ]

\* a snapshot without the riddle record
NoRiddleState ==
  [ currentPage  |-> "hub",
    progress     |-> [wordle |-> PlayedWordle, connections |-> PlayedConnections],
    allCompleted |-> FALSE ]

\* a snapshot that holds the progress only
ProgressOnlyState == [progress |-> ResumedWithout("wordle").progress]

\* a snapshot with fields the provider does not know
ExtraFieldsState ==
  [version |-> 2]
    @@ [ResumedWithout("connections") EXCEPT
          !.progress.wordle = [hardMode |-> TRUE] @@ PlayedWordle]

\* everything solved, written before the flag was raised
AllSolvedState ==
  [ currentPage  |-> "hub",
    progress     |-> [hegionit |-> PlayedHegionit, wordle |-> PlayedWordle,
                      connections |-> PlayedConnections],
    allCompleted |-> FALSE ]

Stored ==
  { NothingStored,
    [kind |-> "invalid", parsed |-> <<>>],
    [kind |-> "null", parsed |-> <<>>],
    Snapshot(<<>>),
    Snapshot(OldVersionState),
    Snapshot(NoRiddleState),
    Snapshot(ProgressOnlyState),
    Snapshot(ExtraFieldsState),
    Snapshot(AllSolvedState),
    Snapshot(ResumedWithout("hegionit")) }

InitLoad == InitFrom(Stored)

NextLoad ==
  \/ Effects
  \/ SetCurrentPage
  \/ UpdateWordle
  \/ ResetConnections
  \/ ResetProgress

SpecLoad == InitLoad /\ [][NextLoad]_vars

(***************************************************************************)
(* The hints of the riddle page and of the grouping page in one session:   *)
(* the player asks for hints on every riddle, and on the grouping page     *)
(* picks the words of the groups and asks for hints between them.          *)
(***************************************************************************)
\* the word continues the words of a group, in the group's order
TowardsAGroup(word) ==
  \E g \in GroupIdx :
     IsPrefix(Append(connectionsPage.selectedWords, word), groups[g + 1].words)

NextHints ==
  \/ Effects
  \/ Visit({"hub", "hegionit", "connections"})
  \/ HegionitHint
  \/ \E i \in RiddleIdx : selectRiddle(i)
  \/ ConnectionsHint
  \/ \E word \in allWords : TowardsAGroup(word) /\ handleWordClick(word)
  \/ ConnectionsSubmit
  \/ hubReset

SpecHints == Init /\ [][NextHints]_vars

(***************************************************************************)
(* The whole game as the player drives it through what the pages render,   *)
(* in a first session or in one resumed with two of the puzzles solved.    *)
(* The player works on one puzzle at a time: the controls of a puzzle page *)
(* are used while the other two puzzles are both untouched or both solved. *)
(***************************************************************************)
PuzzleRecordSolved(s, puzzle) ==
  CASE puzzle = "hegionit" -> Every(s.progress.hegionit.solved)
    [] puzzle = "wordle" -> s.progress.wordle.solved
    [] puzzle = "connections" -> s.progress.connections.solved

PlaysOnly(puzzle) ==
  LET others == {"hegionit", "wordle", "connections"} \ {puzzle}
  IN \/ \A q \in others : state.progress[q] = initialProgress[q]
     \/ \A q \in others : PuzzleRecordSolved(state, q)

InitGame ==
  InitFrom({NothingStored} \cup
           {Snapshot(ResumedWithout(puzzle)) : puzzle \in {"hegionit", "wordle", "connections"}})

NextGame ==
  \/ Effects
  \/ Visit(Pages)
  \/ hubReset
  \/ \E index \in Positions(currentRiddleIndex), value \in RawInputs :
        PlaysOnly("hegionit") /\ InOrder /\ handleLetterChange(index, value)
  \/ PlaysOnly("hegionit") /\ InOrder /\ HegionitSubmit
  \/ PlaysOnly("hegionit") /\ InOrder /\ HegionitHint
  \/ \E i \in RiddleIdx : PlaysOnly("hegionit") /\ selectRiddle(i)
  \/ \E letter \in Keys : PlaysOnly("wordle") /\ handleKeyPress(letter)
  \/ PlaysOnly("wordle") /\ handleBackspace
  \/ PlaysOnly("wordle") /\ WordleSubmit
  \/ PlaysOnly("wordle") /\ restartWordleButton
  \/ \E word \in allWords : PlaysOnly("connections") /\ handleWordClick(word)
  \/ PlaysOnly("connections") /\ ConnectionsSubmit
  \/ PlaysOnly("connections") /\ ConnectionsHint
  \/ PlaysOnly("connections") /\ handleRestartConnections

SpecGame == InitGame /\ [][NextGame]_vars

(***************************************************************************)
(* The evaluator of the word page applied to every guess, over every       *)
(* target word puzzleData may hold (letters with and without final forms). *)
(***************************************************************************)
EvalLetters == {"a", "m", "M"}

EvalWords == [1 .. wordLength -> EvalLetters]

InitEval ==
  /\ \E target \in EvalWords : content = [Content EXCEPT !.wordle = reverseWord(target)]
  /\ storage = NothingStored
  /\ state = loadState(storage)
  /\ pc = "effects"
  /\ hegionitPage = HegionitMounted(state)
  /\ wordlePage = WordleMounted(state)
  /\ connectionsPage = ConnectionsMounted(state)
  /\ last = [op |-> "init", hit |-> storage.kind]
  /\ hinted = <<>>

\* one call of evaluateWord; the history keeps the word and the result (the
\* function reads targetWord only, so one call per behaviour shows them all)
Evaluate(word) ==
  /\ last.op = "init"
  /\ last' = [op |-> "evaluateWord", word |-> word, hit |-> evaluateWord(word)]
  /\ UNCHANGED <<state, storage, pc, pageVars, content, hinted>>

NextEval == \E word \in EvalWords : Evaluate(word)

SpecEval == InitEval /\ [][NextEval]_vars

(***************************************************************************)
(* createSelectionKey applied to every list of up to MaxItems items, the   *)
(* items being empty, blank, padded with blanks or plain.                  *)
(***************************************************************************)
MaxItems == 3

KeyItems == {<<>>, <<" ">>, <<"a">>, <<" ", "a", " ">>, <<"b">>, <<"a", "b">>}

KeyInputs == UNION {[1 .. n -> KeyItems] : n \in 0 .. MaxItems}

\* one call of createSelectionKey; the history keeps the list and the key
SelectionKey(words) ==
  /\ last.op = "init"
  /\ last' = [op |-> "createSelectionKey", words |-> words, hit |-> createSelectionKey(words)]
  /\ UNCHANGED <<state, storage, pc, pageVars, content, hinted>>

NextKey == \E words \in KeyInputs : SelectionKey(words)

SpecKey == Init /\ [][NextKey]_vars

(***************************************************************************)
(* Properties of the whole game (SpecGame)                                 *)
(***************************************************************************)
\* C33: in every state, those between a commit and the provider's effects
\* included, allCompleted is true only when every riddle, the word puzzle and
\* the group puzzle are solved.
C33_FlagNeverStaleTrue ==
  ("allCompleted" \in DOMAIN state /\ state.allCompleted = TRUE)
    => /\ \A i \in RiddleIdx : state.progress.hegionit.solved[i + 1] = TRUE
       /\ state.progress.wordle.solved = TRUE
       /\ state.progress.connections.solved = TRUE

\* the game was completed and then reset from the hub; the effects have not
\* run yet and the flag is already down
C33_Witness ==
  /\ last.op = "resetProgress"
  /\ pc = "effects"
  /\ storage.kind = "json"
  /\ storage.parsed.allCompleted = TRUE
  /\ state.allCompleted = FALSE
  /\ ~state.progress.wordle.solved

\* the hub shows the puzzle in the given status
HubShows(puzzle, status) ==
  /\ pc = "idle"
  /\ state.currentPage = "hub"
  /\ getPuzzleStatus(state, puzzle) = status

\* C34: the final page is shown only while allCompleted is true, and is
\* entered from the hub with the flag true; on the hub the button of each of
\* the three puzzle pages is offered, whichever status the hub shows for the
\* puzzle (locked, in-progress or solved).
C34_FinalIsGated ==
  [][ /\ state'.currentPage = "final" => state'.allCompleted = TRUE
      /\ (state'.currentPage = "final" /\ state.currentPage # "final")
           => state.currentPage = "hub" /\ state.allCompleted = TRUE
      /\ \A puzzle \in {"hegionit", "wordle", "connections"} :
            \A status \in {"locked", "in-progress", "solved"} :
               HubShows(puzzle, status) => Offered(state.currentPage, puzzle)
    ]_vars

\* the surprise button was pressed on the hub of a completed game whose last
\* puzzle was solved in this session
C34_Witness ==
  /\ last = [op |-> "navigate", hit |-> "final"]
  /\ state.currentPage = "final"
  /\ state.allCompleted = TRUE
  /\ state.progress.connections.attempts > 0

(***************************************************************************)
(* Properties of the store (SpecStore)                                     *)
(***************************************************************************)
RiddlesAllSolved == \A i \in RiddleIdx : state.progress.hegionit.solved[i + 1] = TRUE

\* C1: in every state the store reaches through its mutations, once the
\* provider's effects have run, allCompleted is true exactly when every riddle
\* is solved, the word puzzle is solved and the group puzzle is solved.
C1_AllCompletedIffAllSolved ==
  pc = "idle" =>
    (state.allCompleted = TRUE
       <=> (/\ RiddlesAllSolved
            /\ state.progress.wordle.solved = TRUE
            /\ state.progress.connections.solved = TRUE))

\* the flag was raised by a store mutation (the group record solved last)
C1_Witness ==
  /\ pc = "idle"
  /\ state.allCompleted = TRUE
  /\ last.op = "updateConnectionsProgress"
  /\ storage.parsed.allCompleted = TRUE

\* the flag was lowered again when a record stopped being solved
C1_WitnessLowered ==
  /\ pc = "idle"
  /\ state.allCompleted = FALSE
  /\ RiddlesAllSolved
  /\ state.progress.wordle.solved
  /\ last.op = "resetConnectionsProgress"

\* C8: after the full reset, from any state, currentPage is hub, the three
\* progress records equal their defaults and allCompleted is false.
C8_FullReset ==
  last.op = "resetProgress" =>
    /\ state.currentPage = "hub"
    /\ state.progress.hegionit = initialHegionit
    /\ state.progress.wordle = initialWordle
    /\ state.progress.connections = initialConnections
    /\ state.allCompleted = FALSE
    /\ ~RiddlesAllSolved

\* the reset was called in a state with everything completed, on the final page
\* (storage still holds the snapshot written before the reset)
C8_Witness ==
  /\ last.op = "resetProgress"
  /\ pc = "effects"
  /\ storage.kind = "json"
  /\ storage.parsed.allCompleted = TRUE
  /\ storage.parsed.currentPage = "final"
  /\ storage.parsed.progress.connections.solved

\* C9: the scoped reset of the group puzzle makes the group record equal to its
\* defaults (solved false, failed false, solvedGroups empty, attempts 0,
\* hintsUsed 0, lastHintWords empty, lastHintAttempts -1, triedSelections
\* empty) and leaves the riddle record, the word record and currentPage as
\* they were.
C9_ScopedReset ==
  [][ (pc = "idle" /\ last'.op = "resetConnectionsProgress") =>
        /\ state'.progress.connections =
             [solved |-> FALSE, failed |-> FALSE, solvedGroups |-> <<>>, attempts |-> 0,
              hintsUsed |-> 0, lastHintWords |-> <<>>, lastHintAttempts |-> -1,
              triedSelections |-> <<>>]
        /\ state'.progress.hegionit = state.progress.hegionit
        /\ state'.progress.wordle = state.progress.wordle
        /\ state'.currentPage = state.currentPage ]_vars

\* the scoped reset was called with a failed group record that had tried
\* selections, while the riddle and word records were not at their defaults
C9_Witness ==
  /\ last.op = "resetConnectionsProgress"
  /\ pc = "effects"
  /\ storage.kind = "json"
  /\ storage.parsed.progress.connections.failed
  /\ Len(storage.parsed.progress.connections.triedSelections) > 0
  /\ state.progress.connections.attempts = 0
  /\ state.progress.hegionit.solved[1]
  /\ state.progress.wordle.failed
  /\ state.currentPage = "connections"

\* the map `field` of the riddle record after an update: the entries of the
\* update, and every other entry as it was
MergedByKey(before, after, updates, field) ==
  IF field \notin DOMAIN updates
  THEN after[field] = before[field]
  ELSE /\ DOMAIN after[field] = DOMAIN before[field] \cup DOMAIN updates[field]
       /\ \A j \in DOMAIN updates[field] : after[field][j] = updates[field][j]
       /\ \A i \in DOMAIN before[field] \ DOMAIN updates[field] :
             after[field][i] = before[field][i]

\* C22: updateHegionitProgress merges lockedIndices and solvedLetters key by
\* key: the entries of the riddles the update does not name stay as they
\* were, and an update without the field leaves the map as it was; every
\* other field is the update's where the update has it and the previous one
\* where it has not, and nothing outside the riddle record changes.
C22_RiddleMapsMergedByKey ==
  [][ (pc = "idle" /\ last'.op = "updateHegionitProgress") =>
        \A updates \in HegionitUpdates :
           state' = updateHegionitProgress(state, updates) =>
             LET before == state.progress.hegionit
                 after  == state'.progress.hegionit
             IN /\ MergedByKey(before, after, updates, "lockedIndices")
                /\ MergedByKey(before, after, updates, "solvedLetters")
                /\ DOMAIN after = DOMAIN before
                /\ \A field \in DOMAIN before \ {"lockedIndices", "solvedLetters"} :
                      after[field] = IF field \in DOMAIN updates
                                     THEN updates[field] ELSE before[field]
                /\ state'.progress.wordle = state.progress.wordle
                /\ state'.progress.connections = state.progress.connections
                /\ state'.currentPage = state.currentPage
    ]_vars

\* the solved letters of the second riddle were stored beside those of the
\* first, the locks of two riddles staying as they were
C22_Witness ==
  /\ last.op = "updateHegionitProgress"
  /\ pc = "effects"
  /\ storage.kind = "json"
  /\ DOMAIN storage.parsed.progress.hegionit.solvedLetters = {0}
  /\ DOMAIN storage.parsed.progress.hegionit.lockedIndices = {0, 1}
  /\ DOMAIN state.progress.hegionit.solvedLetters = {0, 1}
  /\ state.progress.hegionit.solvedLetters[0] = <<"a", "M">>
  /\ state.progress.hegionit.solvedLetters[1] = <<"a">>
  /\ state.progress.hegionit.lockedIndices = storage.parsed.progress.hegionit.lockedIndices

\* the step is the commit of the store operation op
StoreStep(op) == pc = "idle" /\ last'.op = op

\* C29: whenever the store takes calls, setCurrentPage can be called with
\* every page, and it changes currentPage alone; updateHegionitProgress,
\* updateWordleProgress and updateConnectionsProgress each leave currentPage
\* and the records of the other two puzzles as they were.
C29_StoreFrames ==
  [][ /\ pc = "idle"
           => \A page \in Pages :
                 ENABLED StoreCommit(setCurrentPage(state, page), "setCurrentPage")
      /\ StoreStep("setCurrentPage")
           => /\ state'.currentPage \in Pages
              /\ state' = [state EXCEPT !.currentPage = state'.currentPage]
      /\ StoreStep("updateHegionitProgress")
           => /\ state'.currentPage = state.currentPage
              /\ state'.progress.wordle = state.progress.wordle
              /\ state'.progress.connections = state.progress.connections
      /\ StoreStep("updateWordleProgress")
           => /\ state'.currentPage = state.currentPage
              /\ state'.progress.hegionit = state.progress.hegionit
              /\ state'.progress.connections = state.progress.connections
      /\ StoreStep("updateConnectionsProgress")
           => /\ state'.currentPage = state.currentPage
              /\ state'.progress.hegionit = state.progress.hegionit
              /\ state'.progress.wordle = state.progress.wordle
    ]_vars

\* setCurrentPage was called when each of the three records had been updated,
\* and the page alone changed
C29_Witness ==
  /\ last.op = "setCurrentPage"
  /\ pc = "effects"
  /\ storage.kind = "json"
  /\ storage.parsed.currentPage # state.currentPage
  /\ storage.parsed.progress = state.progress
  /\ state.progress.hegionit # initialHegionit
  /\ state.progress.wordle # initialWordle
  /\ state.progress.connections # initialConnections

\* C38: initializing the store from the snapshot written for a state the
\* store reached from the fresh state gives that state again: the same
\* currentPage, the same three progress records and the same allCompleted;
\* and once the effects have run, the stored snapshot is the one of the state.
C38_ReloadGivesTheStateBack ==
  LET reloaded == loadState(Snapshot(state))
  IN /\ reloaded.currentPage = state.currentPage
     /\ reloaded.progress.hegionit = state.progress.hegionit
     /\ reloaded.progress.wordle = state.progress.wordle
     /\ reloaded.progress.connections = state.progress.connections
     /\ reloaded.allCompleted = state.allCompleted
     /\ reloaded = state
     /\ pc = "idle" => loadState(storage) = state

\* the snapshot of a state with the three records updated and the flag
\* raised has been written
C38_Witness ==
  /\ pc = "idle"
  /\ storage = Snapshot(state)
  /\ state.allCompleted = TRUE
  /\ state.currentPage = "final"
  /\ state.progress.hegionit.lockedIndices # initialHegionit.lockedIndices
  /\ state.progress.wordle # initialWordle
  /\ state.progress.connections.triedSelections # <<>>
  /\ loadState(storage) = state

\* C21: every commit is followed by a write of the whole state, the writes
\* are made in the order of the commits (a step taken while a commit is
\* unwritten is the write of that commit's state, so no later commit is
\* written before it), and with no commit unwritten the stored snapshot is
\* the state in memory.
C21_WriteThrough ==
  [][ /\ pc = "idle" => storage = Snapshot(state)
      /\ pc' = "idle" => storage' = Snapshot(state')
      /\ state' # state => pc' = "effects"
      /\ pc = "effects" => storage' = Snapshot(state)
      /\ pc # "effects" => storage' = storage
    ]_vars

\* an update solved the last puzzle; its state was written, then the
\* allCompleted effect set the flag and that state was written next
C21_Witness ==
  /\ pc = "idle"
  /\ last.op = "updateConnectionsProgress"
  /\ state.allCompleted
  /\ state.progress.connections.solved
  /\ storage = Snapshot(state)

(***************************************************************************)
(* Properties of the riddle page (SpecRiddle)                              *)
(***************************************************************************)
\* the base form of a letter, read off the table of final forms
BaseForm(ch) == IF \E b \in DOMAIN FINAL_FORMS : FINAL_FORMS[b] = ch
                THEN CHOOSE b \in DOMAIN FINAL_FORMS : FINAL_FORMS[b] = ch
                ELSE ch

\* a step of the riddle page's submit handler
RiddleSubmitStep ==
  /\ pc = "idle"
  /\ state.currentPage = "hegionit"
  /\ last'.op = "handleSubmit"

\* the positions of the current riddle whose typed letter is the answer's letter
MatchingPositions ==
  {i \in Positions(currentRiddleIndex) :
     hegionitPage.inputLetters[i + 1] = getAnswerWithoutSpaces(currentRiddleIndex)[i + 1]}

C32_EitherShapeSolves ==
  [][ ( /\ RiddleSubmitStep
        /\ DOMAIN hegionitPage.inputLetters
             = DOMAIN getAnswerWithoutSpaces(currentRiddleIndex)
        /\ \A k \in DOMAIN hegionitPage.inputLetters :
              /\ hegionitPage.inputLetters[k] # ""
              /\ BaseForm(hegionitPage.inputLetters[k])
                   = BaseForm(getAnswerWithoutSpaces(currentRiddleIndex)[k]) )
      => state'.progress.hegionit.solved[currentRiddleIndex + 1]
    ]_vars

\* C3: a wrong submit makes the riddle's locked set equal to the positions
\* locked before together with the positions whose typed letter is the
\* answer's letter (nothing is unlocked, nothing else is locked); and a submit
\* made with locked positions and every unlocked position holding the answer's
\* letter solves the riddle.
C3_WrongSubmitLocksMatches ==
  [][ RiddleSubmitStep =>
        LET r == currentRiddleIndex
            answer == getAnswerWithoutSpaces(r)
        IN /\ (hegionitPage.inputLetters # answer =>
                 /\ hegionitPage'.lockedIndices
                      = hegionitPage.lockedIndices \cup MatchingPositions
                 /\ SavedLocked(state'.progress.hegionit, r)
                      = SavedLocked(state.progress.hegionit, r) \cup MatchingPositions
                 /\ state'.progress.hegionit.solved[r + 1]
                      = state.progress.hegionit.solved[r + 1])
           /\ ((\A i \in Positions(r) \ hegionitPage.lockedIndices :
                   hegionitPage.inputLetters[i + 1] = answer[i + 1])
                 => /\ state'.progress.hegionit.solved[r + 1] = TRUE
                    /\ last'.hit = "correct") ]_vars

\* some riddle was solved by a second submit, without hints, after a wrong
\* submit had locked some but not all of its positions
C3_Witness ==
  /\ last.op = "handleSubmit"
  /\ last.hit = "correct"
  /\ state.currentPage = "hegionit"
  /\ LET r == currentRiddleIndex
         hp == state.progress.hegionit
     IN /\ hp.solved[r + 1]
        /\ hp.tries[r + 1] = 2
        /\ hp.hintsUsed[r + 1] = 0
        /\ SavedLocked(hp, r) # {}
        /\ SavedLocked(hp, r) # Positions(r)

(***************************************************************************)
(* Properties of the word page (SpecWord)                                  *)
(***************************************************************************)
\* C4: the word puzzle is failed exactly when six attempts are stored and it
\* is not solved; solved and failed are never both true.
C4_FailedIffExhausted ==
  LET wp == state.progress.wordle
  IN /\ (wp.failed = TRUE <=> (Len(wp.attempts) = 6 /\ wp.solved = FALSE))
     /\ ~(wp.solved = TRUE /\ wp.failed = TRUE)

\* the sixth wrong guess was submitted
C4_Witness ==
  /\ last.hit = "failed"
  /\ state.progress.wordle.failed
  /\ Len(state.progress.wordle.attempts) = 6

\* the sixth guess was the target: six attempts, solved, not failed
C4_WitnessSixthWins ==
  /\ last.hit = "win"
  /\ state.progress.wordle.solved
  /\ Len(state.progress.wordle.attempts) = 6

\* C15: between restarts the saved attempts only grow at the end (the attempts
\* before a step are a prefix of the attempts after it); every saved attempt
\* has wordLength letters; and there are never more than maxAttempts.
C15_AttemptsAppendOnly ==
  [][ LET before == state.progress.wordle.attempts
          after == state'.progress.wordle.attempts
      IN /\ last'.op \notin {"restartWordle", "resetProgress"} => IsPrefix(before, after)
         /\ \A a \in Range(before) \cup Range(after) : Len(a) = wordLength
         /\ Len(before) <= maxAttempts /\ Len(after) <= maxAttempts
    ]_vars

\* a fifth wrong guess was appended to four saved ones
C15_Witness ==
  /\ last.op = "handleSubmit"
  /\ last.hit = "wrong"
  /\ Len(state.progress.wordle.attempts) = 5
  /\ Len(wordlePage.attempts) = 5

\* the word equals the target once final forms are read as base forms
IsTarget(word) ==
  /\ Len(word) = Len(targetWord)
  /\ \A i \in DOMAIN word : BaseForm(word[i]) = BaseForm(targetWord[i])

\* C16: the word puzzle is solved exactly when one of the saved attempts equals
\* the target up to the form of letters; a winning submit saves the guess
\* and sets solved in one step, also as the last attempt allowed, and failed
\* stays false.
C16_SolvedIffTargetAttempted ==
  [][ LET before == state.progress.wordle
          after == state'.progress.wordle
          winning == /\ last'.op = "handleSubmit"
                     /\ ~before.solved /\ ~before.failed
                     /\ IsTarget(wordlePage.currentAttempt)
      IN /\ before.solved = TRUE <=> \E a \in Range(before.attempts) : IsTarget(a)
         /\ after.solved = TRUE <=> \E a \in Range(after.attempts) : IsTarget(a)
         /\ winning =>
               /\ Len(after.attempts) = Len(before.attempts) + 1
               /\ IsPrefix(before.attempts, after.attempts)
               /\ IsTarget(after.attempts[Len(after.attempts)])
               /\ after.solved = TRUE
               /\ after.failed = FALSE
    ]_vars

\* the target was submitted as the sixth attempt after five wrong guesses
C16_Witness ==
  /\ last.op = "handleSubmit"
  /\ state.progress.wordle.solved
  /\ ~state.progress.wordle.failed
  /\ Len(state.progress.wordle.attempts) = maxAttempts
  /\ IsTarget(state.progress.wordle.attempts[maxAttempts])
  /\ \A k \in 1 .. (maxAttempts - 1) : ~IsTarget(state.progress.wordle.attempts[k])

\* the place of a status in the order unset < absent < present < correct
KeyRank(status) ==
  CASE status = "correct" -> 3
    [] status = "wrong-place" -> 2
    [] status = "wrong" -> 1
    [] OTHER -> 0

\* the status the keyboard of the page shows for a key
KeyStatus(page, key) ==
  IF key \in DOMAIN page.keyboardStatus THEN page.keyboardStatus[key] ELSE "unset"

\* the keys of the keyboard: the letters in their base form
KeyboardKeys == {BaseForm(letter) : letter \in Keys}

\* C23: while the word page is shown and until a restart, the status of
\* every key only moves up in the order unset < absent < present < correct;
\* the page shows one evaluated row for each saved attempt, with its letters,
\* and the status of a key, built guess by guess or rebuilt from the saved
\* attempts when the page is mounted, is the highest its rows give the key.
C23_KeyStatusOnlyUpgrades ==
  [][ /\ (PageOf(state) = "wordle" /\ PageOf(state') = "wordle"
           /\ wordlePage'.keyboardStatus # wordlePage.keyboardStatus
           /\ last'.op \notin {"restartWordle", "resetProgress"})
          => \A key \in KeyboardKeys :
                KeyRank(KeyStatus(wordlePage', key)) >= KeyRank(KeyStatus(wordlePage, key))
      /\ (PageOf(state') = "wordle" /\ <<state, wordlePage>>' # <<state, wordlePage>>)
          => LET saved == state'.progress.wordle.attempts
                 rows  == wordlePage'.attempts
             IN /\ DOMAIN rows = DOMAIN saved
                /\ \A a \in DOMAIN rows :
                      [i \in DOMAIN rows[a] |-> rows[a][i].letter] = saved[a]
                /\ \A a \in DOMAIN rows : \A i \in DOMAIN rows[a] :
                      KeyRank(KeyStatus(wordlePage', BaseForm(rows[a][i].letter)))
                        >= KeyRank(rows[a][i].status)
                /\ \A key \in DOMAIN wordlePage'.keyboardStatus :
                      /\ key \in KeyboardKeys
                      /\ \E a \in DOMAIN rows : \E i \in DOMAIN rows[a] :
                            /\ BaseForm(rows[a][i].letter) = key
                            /\ rows[a][i].status = wordlePage'.keyboardStatus[key]
    ]_vars

\* a guess was submitted whose letters do not stand where a key shown as
\* correct stands in the target, and the key is still shown as correct
C23_Witness ==
  /\ last = [op |-> "handleSubmit", hit |-> "wrong"]
  /\ PageOf(state) = "wordle"
  /\ Len(wordlePage.attempts) >= 2
  /\ \E key \in KeyboardKeys :
        LET newest == wordlePage.attempts[Len(wordlePage.attempts)]
            places == {i \in DOMAIN newest : BaseForm(newest[i].letter) = key}
        IN /\ KeyStatus(wordlePage, key) = "correct"
           /\ places # {}
           /\ \A i \in places : newest[i].status # "correct"

\* the number of boxes of the guess in progress that hold a letter
FilledBoxes(page) ==
  Cardinality({i \in DOMAIN page.currentAttempt : page.currentAttempt[i] # ""})

\* C30: the submit button pressed on an unfinished puzzle with fewer than
\* wordLength letters in the boxes reports an incomplete guess and changes
\* nothing: the saved attempts, solved and failed, the rows and the keyboard
\* of the page and the guess in progress are as before; a submit reported as
\* incomplete is one of fewer than wordLength letters.
C30_IncompleteGuessRejected ==
  [][ /\ ( /\ OnWordle /\ last'.op = "handleSubmit"
           /\ ~state.progress.wordle.solved /\ ~state.progress.wordle.failed
           /\ FilledBoxes(wordlePage) < wordLength )
          => /\ last'.hit = "incomplete"
             /\ state' = state
             /\ wordlePage' = wordlePage
             /\ storage' = storage
      /\ (pc = "idle" /\ last'.hit = "incomplete")
          => /\ FilledBoxes(wordlePage) < wordLength
             /\ state'.progress.wordle = state.progress.wordle
             /\ wordlePage'.currentAttempt = wordlePage.currentAttempt
             /\ wordlePage'.keyboardStatus = wordlePage.keyboardStatus
    ]_vars

WordleOver(s) == s.progress.wordle.solved \/ s.progress.wordle.failed

\* C39: while the word puzzle is solved or failed, a key of the on-screen
\* keyboard, a key of the window's listener, the backspace and the submit
\* are ignored and change neither the saved word record nor the guess in
\* progress (nor anything else of the state or the page); a step that
\* changes the saved word record of such a state, or after which the puzzle
\* is neither solved nor failed, is the restart, taken when the puzzle is
\* failed, or the full reset.
C39_OverIsAbsorbingForPlay ==
  [][ (pc = "idle" /\ WordleOver(state))
        => /\ (OnWordle /\ last'.op \in {"handleKeyPress", "handleBackspace",
                                          "handleSubmit", "keydown"})
               => /\ last'.hit = "ignored"
                  /\ state'.progress.wordle = state.progress.wordle
                  /\ wordlePage'.currentAttempt = wordlePage.currentAttempt
                  /\ state' = state
                  /\ wordlePage' = wordlePage
           /\ (~WordleOver(state') \/ state'.progress.wordle # state.progress.wordle)
               => \/ /\ last'.op = "restartWordle"
                     /\ state.progress.wordle.failed
                     /\ state'.progress.wordle = initialWordle
                  \/ /\ last'.op = "resetProgress"
                     /\ state' = resetProgress
    ]_vars

\* a letter key was pressed on the window after the last attempt had failed
C39_Witness ==
  /\ OnWordle
  /\ last = [op |-> "keydown", hit |-> "ignored"]
  /\ state.progress.wordle.failed
  /\ ~state.progress.wordle.solved
  /\ Len(state.progress.wordle.attempts) = maxAttempts
  /\ wordlePage.currentAttempt = Fill(wordLength, "")

\* the on-screen key was pressed on the solved puzzle with rows left
C39_WitnessSolved ==
  /\ OnWordle
  /\ last = [op |-> "handleKeyPress", hit |-> "ignored"]
  /\ state.progress.wordle.solved
  /\ Len(state.progress.wordle.attempts) < maxAttempts

\* the submit button was pressed after an earlier guess with some of the
\* boxes filled, and the letters are still in the boxes
C30_Witness ==
  /\ last = [op |-> "handleSubmit", hit |-> "incomplete"]
  /\ PageOf(state) = "wordle"
  /\ FilledBoxes(wordlePage) \in 1 .. (wordLength - 1)
  /\ Len(state.progress.wordle.attempts) >= 1
  /\ DOMAIN wordlePage.keyboardStatus # {}

\* C5: the restart of the word puzzle, from any state of the puzzle, leaves the
\* word record at its defaults (attempts empty, solved false, failed false)
\* and leaves the riddle record, the group record and currentPage as they were.
C5_RestartWord ==
  [][ (pc = "idle" /\ last'.op = "restartWordle") =>
        /\ state'.progress.wordle =
             [solved |-> FALSE, failed |-> FALSE, attempts |-> <<>>, currentAttempt |-> <<>>]
        /\ state'.progress.hegionit = state.progress.hegionit
        /\ state'.progress.connections = state.progress.connections
        /\ state'.currentPage = state.currentPage ]_vars

\* the restart was called on a failed puzzle with six attempts, the other two
\* records being those of solved puzzles
C5_Witness ==
  /\ last.op = "restartWordle"
  /\ pc = "effects"
  /\ storage.kind = "json"
  /\ storage.parsed.progress.wordle.failed
  /\ Len(storage.parsed.progress.wordle.attempts) = 6
  /\ state.progress.wordle.attempts = <<>>
  /\ state.progress.hegionit = PlayedHegionit
  /\ state.progress.connections = PlayedConnections

\* the restart was called on a solved puzzle
C5_WitnessSolved ==
  /\ last.op = "restartWordle"
  /\ pc = "effects"
  /\ storage.kind = "json"
  /\ storage.parsed.progress.wordle.solved
  /\ storage.parsed.allCompleted
  /\ ~state.progress.wordle.solved

(***************************************************************************)
(* Properties of the grouping page (SpecGroup)                             *)
(***************************************************************************)
\* a step of the grouping page's submit handler
GroupSubmitStep ==
  /\ pc = "idle"
  /\ state.currentPage = "connections"
  /\ last'.op = "handleSubmit"

\* the words of a key: the pieces between its "|" delimiters
RECURSIVE KeyPieces(_, _)
KeyPieces(key, piece) ==
  IF key = <<>> THEN {piece}
  ELSE IF Head(key) = "|" THEN {piece} \cup KeyPieces(Tail(key), <<>>)
       ELSE KeyPieces(Tail(key), Append(piece, Head(key)))

KeyWords(key) == KeyPieces(key, <<>>)

GroupWordSets == {Range(groups[g].words) : g \in DOMAIN groups}

\* the selections submitted so far that are no group, as sets of words
WrongSelectionsOf(cp) ==
  {KeyWords(cp.triedSelections[k]) : k \in DOMAIN cp.triedSelections} \ GroupWordSets

\* C6: submitting a wrong selection of four words that was submitted before, in
\* any pick order, leaves attempts, triedSelections and failed unchanged;
\* attempts grows, by exactly one, only when a wrong selection not submitted
\* before is submitted; so attempts is always the number of distinct wrong
\* selections submitted since the last reset.
C6_DuplicateWrongNotCounted ==
  [][ LET cp == state.progress.connections
          cq == state'.progress.connections
          selection == connectionsPage.selectedWords
          isWrong == Len(selection) = 4 /\ Range(selection) \notin GroupWordSets
          wasSubmitted == Range(selection) \in WrongSelectionsOf(cp)
      IN /\ cq.attempts = Cardinality(WrongSelectionsOf(cq))
         /\ (GroupSubmitStep /\ isWrong /\ wasSubmitted =>
               /\ cq.attempts = cp.attempts
               /\ cq.triedSelections = cp.triedSelections
               /\ cq.failed = cp.failed)
         /\ (GroupSubmitStep /\ isWrong /\ ~wasSubmitted /\ ~cp.failed /\ ~cp.solved =>
               /\ cq.attempts = cp.attempts + 1
               /\ WrongSelectionsOf(cq) = WrongSelectionsOf(cp) \cup {Range(selection)})
         /\ (cq.attempts > cp.attempts =>
               GroupSubmitStep /\ isWrong /\ ~wasSubmitted /\ cq.attempts = cp.attempts + 1)
    ]_vars

\* a wrong selection was submitted again with its words picked in another order
C6_Witness ==
  /\ last.op = "handleSubmit"
  /\ last.hit \in {"duplicate", "duplicateAlmost"}
  /\ state.currentPage = "connections"
  /\ connectionsPage.selectedWords = WrongCandidate[2]
  /\ createSelectionKey(WrongCandidate[1]) \in Range(state.progress.connections.triedSelections)
  /\ WrongCandidate[1] # WrongCandidate[2]
  /\ state.progress.connections.attempts = 1

\* C7: submitting the four words of a group not yet solved appends the group's
\* index to solvedGroups and leaves attempts unchanged; no step other than a
\* reset removes an index from solvedGroups, and solvedGroups never holds an
\* index twice.
C7_CorrectSelectionAddsGroup ==
  [][ LET cp == state.progress.connections
          cq == state'.progress.connections
          selection == connectionsPage.selectedWords
      IN /\ (GroupSubmitStep /\ ~cp.failed =>
               \A g \in GroupIdx :
                  (/\ Len(selection) = 4
                   /\ Range(selection) = Range(groups[g + 1].words)
                   /\ g \notin Range(cp.solvedGroups))
                    => /\ cq.solvedGroups = Append(cp.solvedGroups, g)
                       /\ cq.attempts = cp.attempts)
         /\ (last'.op \notin {"handleRestartConnections", "resetProgress"} =>
               Range(cp.solvedGroups) \subseteq Range(cq.solvedGroups))
         /\ Cardinality(Range(cq.solvedGroups)) = Len(cq.solvedGroups)
    ]_vars

\* a group was solved after wrong selections had been counted
C7_Witness ==
  /\ last.op = "handleSubmit"
  /\ last.hit = "correct"
  /\ state.currentPage = "connections"
  /\ state.progress.connections.attempts = 2
  /\ state.progress.connections.solvedGroups = <<1>>

\* C19: solved is true exactly when solvedGroups holds every group; failed is
\* true exactly when attempts is 6 and solved is false; solved and failed are
\* never both true and attempts is never more than 6.
C19_SolvedAndFailedDerived ==
  LET progress == state.progress.connections
  IN /\ progress.solved <=> (\A g \in GroupIdx : Includes(progress.solvedGroups, g))
     /\ progress.failed <=> (progress.attempts = 6 /\ ~progress.solved)
     /\ ~(progress.solved /\ progress.failed)
     /\ progress.attempts <= 6

\* the sixth wrong selection was submitted with a group solved
C19_Witness ==
  /\ last = [op |-> "handleSubmit", hit |-> "failed"]
  /\ state.currentPage = "connections"
  /\ state.progress.connections.failed
  /\ state.progress.connections.attempts = 6
  /\ Len(state.progress.connections.solvedGroups) = 1

\* the step is a click on a word, a submit or a hint request of the grouping page
GroupPlayStep ==
  /\ pc = "idle"
  /\ state.currentPage = "connections"
  /\ last'.op \in {"handleWordClick", "handleSubmit", "handleHint"}

\* C20: with failed true, a click on a word, a submit and a hint request
\* change no field of the group record; failed turns false again only by
\* handleRestartConnections or by the reset of the hub.
C20_FailedIsFinalUntilReset ==
  [][ /\ (state.progress.connections.failed /\ GroupPlayStep)
           => state'.progress.connections = state.progress.connections
      /\ (state.progress.connections.failed /\ ~state'.progress.connections.failed)
           => /\ last'.op \in {"handleRestartConnections", "resetProgress"}
              /\ state'.progress.connections = initialConnections
    ]_vars

\* a hint was asked for on the failed puzzle, hints being left
C20_Witness ==
  /\ last = [op |-> "handleHint", hit |-> "ignored"]
  /\ state.currentPage = "connections"
  /\ state.progress.connections.failed
  /\ state.progress.connections.hintsUsed < 2

\* C26: but for the resets, triedSelections only grows (the keys saved before
\* a step are the first keys saved after it), and after a submit of four
\* selected words, right or wrong, the key of the selection is among them.
C26_TriedSelectionsGrow ==
  [][ LET before == state.progress.connections.triedSelections
          after  == state'.progress.connections.triedSelections
      IN /\ last'.op \notin {"handleRestartConnections", "resetProgress"}
              => IsPrefix(before, after)
         /\ (GroupSubmitStep /\ Len(connectionsPage.selectedWords) = SelectionSize)
              => Range(connectionsPage.selectedWords)
                   \in {KeyWords(after[k]) : k \in DOMAIN after}
    ]_vars

\* a right selection was submitted after two wrong ones and the three keys
\* are saved
C26_Witness ==
  /\ last = [op |-> "handleSubmit", hit |-> "correct"]
  /\ state.currentPage = "connections"
  /\ state.progress.connections.attempts = 2
  /\ Len(state.progress.connections.triedSelections) = 3
  /\ KeyWords(state.progress.connections.triedSelections[3]) \in GroupWordSets

\* C35: triedSelections holds as many keys as attempts plus the number of
\* solved groups, and holds no key twice.
C35_TriedCountsAttemptsAndGroups ==
  LET cp == state.progress.connections
  IN /\ Len(cp.triedSelections) = cp.attempts + Len(cp.solvedGroups)
     /\ \A i, j \in DOMAIN cp.triedSelections :
           cp.triedSelections[i] = cp.triedSelections[j] => i = j

\* a wrong selection and then a right one were submitted, no hint taken, and
\* the state was written
C35_Witness ==
  /\ last = [op |-> "handleSubmit", hit |-> "correct"]
  /\ state.progress.connections.attempts = 1
  /\ Len(state.progress.connections.solvedGroups) = 1
  /\ Len(state.progress.connections.triedSelections) = 2
  /\ storage.kind = "json"
  /\ state.progress.connections.hintsUsed = 0

\* the step is a hint request of the grouping page
GroupHintStep ==
  /\ pc = "idle"
  /\ state.currentPage = "connections"
  /\ last'.op = "handleHint"

\* the words are words of a hint and none of them is in a solved group
AllUnsolved(words, progress) ==
  /\ words # <<>>
  /\ \A k \in DOMAIN words :
        \A g \in Range(progress.solvedGroups) : ~Includes(groups[g + 1].words, words[k])

\* C25: a hint request made while the words of the hint issued last are all
\* unsolved selects those words again and leaves hintsUsed as it was;
\* hintsUsed grows, by one, only on a hint request made when no hint was
\* issued before or a word of the hint issued last has been solved.
C25_RepeatedHintIsFree ==
  [][ GroupHintStep =>
        LET before == state.progress.connections
            after  == state'.progress.connections
        IN /\ (AllUnsolved(hinted, before) /\ ~before.solved /\ ~before.failed)
                => /\ after.hintsUsed = before.hintsUsed
                   /\ connectionsPage'.selectedWords = hinted
           /\ after.hintsUsed # before.hintsUsed
                => /\ after.hintsUsed = before.hintsUsed + 1
                   /\ ~AllUnsolved(hinted, before)
    ]_vars

(***************************************************************************)
(* Properties of the locked boxes (SpecRiddle)                             *)
(***************************************************************************)
\* every locked position of every riddle is a position of the saved answer
\* and holds the letter of the riddle's answer
LockedHoldAnswer(s) ==
  \A i \in RiddleIdx :
     \A p \in SavedLocked(s.progress.hegionit, i) :
        /\ p \in 0 .. (Len(s.progress.hegionit.answers[i + 1]) - 1)
        /\ p \in Positions(i)
        /\ s.progress.hegionit.answers[i + 1][p + 1] = getAnswerWithoutSpaces(i)[p + 1]

\* the letter saved at index p of a riddle's answers entry, "" for an empty
\* box and for a box not saved yet
SavedLetter(saved, p) ==
  IF p + 1 \in DOMAIN saved /\ saved[p + 1] # EMPTY_SENTINEL THEN saved[p + 1] ELSE ""

\* the boxes and the locked positions the riddle page shows are those saved
\* for the riddle shown: an unsolved riddle shows, box by box, the letter of
\* its saved answer (an empty box for the sentinel) and locks the saved
\* locked positions
ShowsWhatIsSaved ==
  LET hp == state.progress.hegionit
      r  == hp.currentRiddle
  IN (PageOf(state) = "hegionit" /\ ~hp.solved[r + 1])
       => /\ DOMAIN hegionitPage.inputLetters = 1 .. Len(getAnswerWithoutSpaces(r))
          /\ \A p \in Positions(r) :
                hegionitPage.inputLetters[p + 1] = SavedLetter(hp.answers[r + 1], p)
          /\ hegionitPage.lockedIndices = SavedLocked(hp, r)

\* the letters of the boxes come back from their saved form
BoxesRoundTrip ==
  PageOf(state) = "hegionit"
    => decodeAnswer(encodeAnswer(hegionitPage.inputLetters)) = hegionitPage.inputLetters

\* C31 (as stated): the saved answers entry of every riddle always has as many
\* positions as the riddle's answer has letters; decoding the saved form of
\* the boxes gives the boxes back; the page shows the saved letters and
\* locked positions, also after the riddle was left and come back to.
C31_AnswersAlwaysFullLength ==
  /\ \A i \in RiddleIdx :
        Len(state.progress.hegionit.answers[i + 1]) = Len(getAnswerWithoutSpaces(i))
  /\ BoxesRoundTrip
  /\ ShowsWhatIsSaved

\* C31 (amended): the saved answers entry of a riddle is empty while no box
\* of the riddle was written and has as many positions as the riddle's
\* answer has letters from then on; decoding the saved form of the boxes
\* gives the boxes back; the page shows the saved letters and locked
\* positions, also after the riddle was left and come back to.
C31_AnswersFullLengthOnceWritten ==
  /\ \A i \in RiddleIdx :
        \/ state.progress.hegionit.answers[i + 1] = <<>>
        \/ Len(state.progress.hegionit.answers[i + 1]) = Len(getAnswerWithoutSpaces(i))
  /\ BoxesRoundTrip
  /\ ShowsWhatIsSaved

\* the player came back to an unsolved riddle saved with a letter after an
\* empty box and with a locked box
C31_Witness ==
  LET hp == state.progress.hegionit
      r  == hp.currentRiddle
  IN /\ last.op \in {"navigateRiddle", "selectRiddle", "navigate"}
     /\ PageOf(state) = "hegionit"
     /\ ~hp.solved[r + 1]
     /\ Len(hp.answers[r + 1]) = 3
     /\ hp.answers[r + 1][1] # EMPTY_SENTINEL
     /\ hp.answers[r + 1][2] = EMPTY_SENTINEL
     /\ hp.answers[r + 1][3] # EMPTY_SENTINEL
     /\ SavedLocked(hp, r) # {}
     /\ hegionitPage.inputLetters[2] = ""
     /\ hegionitPage.inputLetters[3] # ""

\* the step is an arrow or a progress dot of the riddle page
RiddleNavStep ==
  pc = "idle" /\ last'.op \in {"navigateRiddle", "selectRiddle"}

\* C27: currentRiddle stays within 0 .. N-1; the next arrow goes one riddle
\* on and from the last riddle to the first, the prev arrow goes one riddle
\* back and from the first riddle to the last; an arrow or a dot changes
\* nothing of the saved state but currentRiddle.
C27_NavigationWraps ==
  [][ LET N      == Len(content.hegionit)
          before == state.progress.hegionit.currentRiddle
          after  == state'.progress.hegionit.currentRiddle
      IN /\ before \in 0 .. (N - 1) /\ after \in 0 .. (N - 1)
         /\ (pc = "idle" /\ last' = [op |-> "navigateRiddle", hit |-> "next"])
              => after = IF before = N - 1 THEN 0 ELSE before + 1
         /\ (pc = "idle" /\ last' = [op |-> "navigateRiddle", hit |-> "prev"])
              => after = IF before = 0 THEN N - 1 ELSE before - 1
         /\ RiddleNavStep
              => state' = [state EXCEPT !.progress.hegionit.currentRiddle = after]
    ]_vars

\* the next arrow was pressed on the last riddle, whose boxes and hints had
\* been used, and the first riddle is shown
C27_Witness ==
  /\ last = [op |-> "navigateRiddle", hit |-> "next"]
  /\ pc = "effects"
  /\ storage.kind = "json"
  /\ storage.parsed.progress.hegionit.currentRiddle = Len(content.hegionit) - 1
  /\ state.progress.hegionit.currentRiddle = 0
  /\ state.progress.hegionit.solved[1]
  /\ state.progress.hegionit.hintsUsed = storage.parsed.progress.hegionit.hintsUsed
  /\ \E i \in DOMAIN state.progress.hegionit.hintsUsed :
        state.progress.hegionit.hintsUsed[i] > 0

\* C28: but for the reset of the whole game, a solved riddle stays solved and
\* its solvedLetters stay as they are; the step that solves a riddle is a
\* submit and saves the letters of the boxes as its solvedLetters; while a
\* solved riddle is shown its boxes hold the saved letters and every box is
\* locked.
C28_SolvedIsKept ==
  [][ LET before == state.progress.hegionit
          after  == state'.progress.hegionit
      IN /\ last'.op # "resetProgress"
              => \A i \in RiddleIdx :
                    before.solved[i + 1]
                      => /\ after.solved[i + 1]
                         /\ i \in DOMAIN before.solvedLetters
                         /\ i \in DOMAIN after.solvedLetters
                         /\ after.solvedLetters[i] = before.solvedLetters[i]
         /\ \A i \in RiddleIdx :
               (~before.solved[i + 1] /\ after.solved[i + 1])
                 => /\ OnHegionit /\ i = before.currentRiddle
                    /\ last'.op = "handleSubmit"
                    /\ after.solvedLetters[i] = hegionitPage.inputLetters
         /\ (state'.currentPage = "hegionit" /\ after.solved[after.currentRiddle + 1])
              => /\ hegionitPage'.lockedIndices = Positions(after.currentRiddle)
                 /\ hegionitPage'.inputLetters = after.solvedLetters[after.currentRiddle]
    ]_vars

\* a box of a solved riddle was typed in after another riddle had been worked
\* on, and the riddle is still solved with its saved letters
C28_Witness ==
  /\ last = [op |-> "handleLetterChange", hit |-> "ignored"]
  /\ state.currentPage = "hegionit"
  /\ state.progress.hegionit.solved[currentRiddleIndex + 1]
  /\ state.progress.hegionit.solvedLetters[currentRiddleIndex]
       = getAnswerWithoutSpaces(currentRiddleIndex)
  /\ hegionitPage.lockedIndices = Positions(currentRiddleIndex)
  /\ SavedLocked(state.progress.hegionit, currentRiddleIndex)
       # Positions(currentRiddleIndex)
  /\ \E j \in RiddleIdx : /\ j # currentRiddleIndex
                          /\ state.progress.hegionit.tries[j + 1] > 0

\* the step is the player typing or deleting in a box, Backspace in an empty
\* box, or the clear button
PlayerEditStep ==
  pc = "idle" /\ last'.op \in {"handleLetterChange", "handleKeyDown", "handleClear"}

\* C18: every position of lockedIndices[i] is a position of answers[i] and
\* the character saved there is the answer's character at that position;
\* typing, deleting, Backspace in an empty box and clear leave every locked
\* position locked and its character as it was.
C18_LockedLettersKept ==
  [][ /\ LockedHoldAnswer(state) /\ LockedHoldAnswer(state')
      /\ PlayerEditStep =>
           \A i \in RiddleIdx :
              \A p \in SavedLocked(state.progress.hegionit, i) :
                 /\ p \in SavedLocked(state'.progress.hegionit, i)
                 /\ state'.progress.hegionit.answers[i + 1][p + 1]
                      = state.progress.hegionit.answers[i + 1][p + 1]
    ]_vars

\* the clear button was pressed on an unsolved riddle with a locked box and
\* the boxes beside it were emptied
C18_Witness ==
  /\ last = [op |-> "handleClear", hit |-> "cleared"]
  /\ ~state.progress.hegionit.solved[currentRiddleIndex + 1]
  /\ SavedLocked(state.progress.hegionit, currentRiddleIndex) # {}
  /\ \E k \in DOMAIN hegionitPage.inputLetters : hegionitPage.inputLetters[k] = ""

\* the place in the answer (spaces counted) of the letter stored at index p
RECURSIVE PlaceOf(_, _, _)
PlaceOf(answer, p, k) ==
  IF k > Len(answer) THEN k
  ELSE IF IsSpace(answer[k]) THEN PlaceOf(answer, p, k + 1)
       ELSE IF p = 0 THEN k ELSE PlaceOf(answer, p - 1, k + 1)

\* the word of riddle r that the storage index p belongs to, counted from 0
WordOf(r, p) ==
  Cardinality({k \in 1 .. PlaceOf(normalizedAnswer(r), p, 1) :
                  k <= Len(normalizedAnswer(r)) /\ IsSpace(normalizedAnswer(r)[k])})

\* p is read before q: in an earlier word, or later in the same word
ReadBefore(r, p, q) ==
  \/ WordOf(r, p) < WordOf(r, q)
  \/ WordOf(r, p) = WordOf(r, q) /\ p > q

\* the step is a hint request on an unsolved riddle with hints left
HintBelowCap ==
  /\ pc = "idle"
  /\ state.currentPage = "hegionit"
  /\ last'.op = "handleHint"
  /\ ~state.progress.hegionit.solved[currentRiddleIndex + 1]
  /\ state.progress.hegionit.hintsUsed[currentRiddleIndex + 1] < 2

\* C24: a hint request below the cap puts the answer's letter into the first
\* box in reading order (word by word, each word from its last storage index
\* to its first) that is empty and not locked, locks that box, adds one to
\* hintsUsed of the riddle and leaves every other box as it was; with no
\* empty unlocked box it reports "no empty positions" and leaves hintsUsed,
\* lockedIndices and answers as they were.
C24_HintRevealsFirstEmpty ==
  [][ HintBelowCap =>
        LET r      == currentRiddleIndex
            before == state.progress.hegionit
            after  == state'.progress.hegionit
            locked == SavedLocked(before, r)
            open   == {p \in Positions(r) :
                         p \notin locked /\ hegionitPage.inputLetters[p + 1] = ""}
        IN IF open = {}
           THEN /\ last'.hit = "noEmpty"
                /\ after.hintsUsed = before.hintsUsed
                /\ after.lockedIndices = before.lockedIndices
                /\ after.answers = before.answers
           ELSE \E t \in open :
                   /\ \A p \in open \ {t} : ReadBefore(r, t, p)
                   /\ last'.hit = "revealed"
                   /\ SavedLocked(after, r) = locked \cup {t}
                   /\ SavedLetter(after.answers[r + 1], t) = getAnswerWithoutSpaces(r)[t + 1]
                   /\ hegionitPage'.inputLetters[t + 1] = getAnswerWithoutSpaces(r)[t + 1]
                   /\ after.hintsUsed[r + 1] = before.hintsUsed[r + 1] + 1
                   /\ \A p \in Positions(r) \ {t} :
                         /\ SavedLetter(after.answers[r + 1], p)
                              = SavedLetter(before.answers[r + 1], p)
                         /\ hegionitPage'.inputLetters[p + 1] = hegionitPage.inputLetters[p + 1]
                   /\ \A i \in RiddleIdx \ {r} :
                         /\ after.hintsUsed[i + 1] = before.hintsUsed[i + 1]
                         /\ after.answers[i + 1] = before.answers[i + 1]
                         /\ SavedLocked(after, i) = SavedLocked(before, i)
    ]_vars

\* the first hint of the first riddle went to the last storage index of the
\* first word, the boxes before it staying empty
C24_Witness ==
  /\ last = [op |-> "handleHint", hit |-> "revealed"]
  /\ currentRiddleIndex = 0
  /\ state.progress.hegionit.hintsUsed[1] = 1
  /\ SavedLocked(state.progress.hegionit, 0) = {1}
  /\ hegionitPage.inputLetters[1] = ""
  /\ hegionitPage.inputLetters[3] = ""

\* a hint was asked for with every box filled
C24_WitnessNoEmpty ==
  /\ last = [op |-> "handleHint", hit |-> "noEmpty"]
  /\ state.progress.hegionit.hintsUsed[currentRiddleIndex + 1] < 2

(***************************************************************************)
(* Properties of the hints (SpecHints)                                     *)
(***************************************************************************)
HintsInRange(s) ==
  /\ \A i \in RiddleIdx : s.progress.hegionit.hintsUsed[i + 1] \in 0 .. 2
  /\ s.progress.connections.hintsUsed \in 0 .. 2

\* the step is a hint request
HintStep == pc = "idle" /\ last'.op = "handleHint"

\* C17: hintsUsed of every riddle and hintsUsed of the group puzzle stay
\* between 0 and 2; a hint request made with the count at 2 changes no
\* field of the progress.
C17_HintsCapped ==
  [][ /\ HintsInRange(state) /\ HintsInRange(state')
      /\ (/\ HintStep
          /\ state.currentPage = "hegionit"
          /\ state.progress.hegionit.hintsUsed[currentRiddleIndex + 1] = 2)
           => state'.progress = state.progress
      /\ (/\ HintStep
          /\ state.currentPage = "connections"
          /\ state.progress.connections.hintsUsed = 2)
           => state'.progress = state.progress
    ]_vars

\* a third hint was asked for on a riddle that has an empty box left
C17_WitnessRiddle ==
  /\ last.op = "handleHint"
  /\ state.currentPage = "hegionit"
  /\ state.progress.hegionit.hintsUsed[currentRiddleIndex + 1] = 2
  /\ \E k \in DOMAIN hegionitPage.inputLetters : hegionitPage.inputLetters[k] = ""
  /\ ~state.progress.hegionit.solved[currentRiddleIndex + 1]

\* a third hint was asked for on the grouping page, the group of the second
\* hint being solved and a group being left
C17_Witness ==
  /\ state.progress.hegionit.hintsUsed[1] = 2
  /\ last.op = "handleHint"
  /\ state.currentPage = "connections"
  /\ state.progress.connections.hintsUsed = 2
  /\ ~state.progress.connections.solved
  /\ ~state.progress.connections.failed
  /\ state.progress.connections.lastHintWords = <<>>
  /\ connectionsPage.availableWords # {}

(***************************************************************************)
(* Properties of getPuzzleStatus (SpecRiddle)                              *)
(***************************************************************************)
\* the saved answer of a riddle holds a letter in some position
HoldsLetter(answer) == \E k \in DOMAIN answer : answer[k] # EMPTY_SENTINEL

PuzzleSolved(puzzle) ==
  CASE puzzle = "hegionit" -> RiddlesAllSolved
    [] puzzle = "wordle" -> state.progress.wordle.solved
    [] puzzle = "connections" -> state.progress.connections.solved

PuzzleStarted(puzzle) ==
  CASE puzzle = "hegionit" ->
         \/ \E i \in RiddleIdx : state.progress.hegionit.solved[i + 1]
         \/ \E i \in RiddleIdx : HoldsLetter(state.progress.hegionit.answers[i + 1])
    [] puzzle = "wordle" -> Len(state.progress.wordle.attempts) > 0
    [] puzzle = "connections" ->
         \/ Len(state.progress.connections.solvedGroups) > 0
         \/ state.progress.connections.attempts > 0

\* C14: getPuzzleStatus is solved exactly when the puzzle is solved,
\* otherwise in-progress exactly when the puzzle was started (riddles: a
\* riddle solved or a letter held in some box), otherwise locked; riddles
\* with nothing solved and every box empty are locked, also after letters
\* were typed and deleted or cleared.
C14_StatusReflectsProgress ==
  \A puzzle \in {"hegionit", "wordle", "connections"} :
     getPuzzleStatus(state, puzzle)
       = IF PuzzleSolved(puzzle) THEN "solved"
         ELSE IF PuzzleStarted(puzzle) THEN "in-progress" ELSE "locked"

(***************************************************************************)
(* Properties of the evaluator (SpecEval)                                  *)
(***************************************************************************)
Evaluated == last.op = "evaluateWord"

StatusesOf(evaluated) == [i \in DOMAIN evaluated |-> evaluated[i].status]

\* C11: evaluate returns one status per position of the target; a position
\* is marked correct exactly when the base forms of the guess's and the
\* target's letters there are equal; and for each letter, the positions of
\* that letter marked correct or wrong-place are never more than the
\* occurrences of the letter in the target.
C11_EvaluateCountsLetters ==
  Evaluated =>
    LET word == last.word
        result == last.hit
        marked(ch) == {i \in DOMAIN result : /\ BaseForm(word[i]) = ch
                                              /\ result[i].status \in {"correct", "wrong-place"}}
        inTarget(ch) == {j \in DOMAIN targetWord : BaseForm(targetWord[j]) = ch}
    IN /\ Len(result) = Len(targetWord)
       /\ \A i \in DOMAIN result :
             /\ result[i].status \in {"correct", "wrong-place", "wrong"}
             /\ result[i].status = "correct" <=> BaseForm(word[i]) = BaseForm(targetWord[i])
       /\ \A ch \in {BaseForm(l) : l \in EvalLetters} :
             Cardinality(marked(ch)) <= Cardinality(inTarget(ch))

\* a guess holds a letter more often than the target: one occurrence is
\* marked correct, another wrong-place, and a further one wrong
C11_Witness ==
  /\ Evaluated
  /\ \E i, j, k \in DOMAIN last.hit :
        /\ BaseForm(last.word[i]) = BaseForm(last.word[j])
        /\ BaseForm(last.word[j]) = BaseForm(last.word[k])
        /\ last.hit[i].status = "correct"
        /\ last.hit[j].status = "wrong-place"
        /\ last.hit[k].status = "wrong"

\* the guesses that differ from word in the shape of letters only
ShapeVariants(word) ==
  {w \in [DOMAIN word -> EvalLetters] : \A i \in DOMAIN word : BaseForm(w[i]) = BaseForm(word[i])}

\* C12: letters are compared by their base forms, in the guess and in the
\* target: guesses that differ only in the shape of letters get the same
\* statuses, and the letter reported at each position is the guess's own
\* character there.
C12_ShapeVariantsEvaluateAlike ==
  Evaluated =>
    /\ \A i \in DOMAIN last.hit : last.hit[i].letter = last.word[i]
    /\ \A w \in ShapeVariants(last.word) :
          StatusesOf(evaluateWord(w)) = StatusesOf(last.hit)
    /\ StatusesOf(evaluateAgainst(last.word, [i \in DOMAIN targetWord |-> BaseForm(targetWord[i])]))
          = StatusesOf(last.hit)

\* a final form in the guess met the regular form in the target (and the
\* other way round) and was marked correct, the final form being reported
C12_Witness ==
  /\ Evaluated
  /\ \E i, j \in DOMAIN last.hit :
        /\ last.word[i] = "M" /\ targetWord[i] = "m"
        /\ last.hit[i] = [letter |-> "M", status |-> "correct"]
        /\ last.word[j] = "m" /\ targetWord[j] = "M"
        /\ last.hit[j] = [letter |-> "m", status |-> "correct"]

\* the positions of a word holding the letter ch, in either shape
Occurrences(word, ch) == {i \in DOMAIN word : BaseForm(word[i]) = ch}

Min(a, b) == IF a <= b THEN a ELSE b

\* the reference scoring: the positions where guess and target agree are
\* correct; of the other positions of the guess holding a letter, read from
\* the left, as many are wrong-place as the target has positions holding the
\* letter where the guess does not agree, and the rest are wrong
ReferenceStatuses(word, target) ==
  LET agree == {i \in DOMAIN word : BaseForm(word[i]) = BaseForm(target[i])}
      spare(ch) == Cardinality(Occurrences(target, ch) \ agree)
      before(i) == {j \in Occurrences(word, BaseForm(word[i])) \ agree : j <= i}
  IN [i \in DOMAIN word |->
        IF i \in agree THEN "correct"
        ELSE IF Cardinality(before(i)) <= spare(BaseForm(word[i])) THEN "wrong-place"
             ELSE "wrong"]

\* C37: for each letter, the positions of the guess holding it that are
\* marked correct or wrong-place are as many as the smaller of its
\* occurrences in the guess and in the target; and the statuses are those of
\* the reference scoring.
C37_MarkedIsMinOfOccurrences ==
  Evaluated =>
    LET word == last.word
        statuses == StatusesOf(last.hit)
    IN /\ DOMAIN statuses = DOMAIN targetWord
       /\ \A ch \in {BaseForm(l) : l \in EvalLetters} :
             Cardinality({i \in Occurrences(word, ch) : statuses[i] # "wrong"})
               = Min(Cardinality(Occurrences(word, ch)), Cardinality(Occurrences(targetWord, ch)))
       /\ statuses = ReferenceStatuses(word, targetWord)

\* the guess holds a letter three times and the target twice, once where
\* the guess holds it: the first spare occurrence is wrong-place, the
\* second is wrong
C37_Witness ==
  /\ Evaluated
  /\ targetWord = <<"m", "a", "a", "M", "a">>
  /\ last.word = <<"a", "M", "m", "m", "m">>
  /\ StatusesOf(last.hit) = <<"wrong-place", "wrong-place", "wrong", "correct", "wrong">>

(***************************************************************************)
(* Properties of createSelectionKey (SpecKey)                              *)
(***************************************************************************)
\* how often each non-empty trimmed item occurs in each list
ItemCounts ==
  [words \in KeyInputs |->
     [item \in {Trim(it) : it \in KeyItems} \ {<<>>} |->
        Cardinality({i \in DOMAIN words : Trim(words[i]) = item})]]

\* the key of each list
KeyOf == [words \in KeyInputs |-> createSelectionKey(words)]

\* the keys of the lists that hold the same items the same number of times
KeysOfItems ==
  [counts \in {ItemCounts[words] : words \in KeyInputs} |->
     {KeyOf[words] : words \in {other \in KeyInputs : ItemCounts[other] = counts}}]

\* C13: two lists with the same multiset of non-empty trimmed items have the
\* same key, whatever the order of the items, the blanks around them and
\* the number of empty or blank entries.
C13_KeyOfSameItems ==
  last.op = "createSelectionKey" =>
    KeysOfItems[ItemCounts[last.words]] = {last.hit}

\* a list out of order, with an empty entry and a padded item, got the key
\* of its two items in order
C13_Witness ==
  /\ last.op = "createSelectionKey"
  /\ last.words = << <<"b">>, <<>>, <<" ", "a", " ">> >>
  /\ last.hit = <<"a", "|", "b">>

\* the set of the non-empty trimmed items of each list
ItemSetOf ==
  [words \in KeyInputs |-> {Trim(words[i]) : i \in DOMAIN words} \ {<<>>}]

\* C36: a list whose set of non-empty trimmed items differs from that of the
\* list given has a different key: every list with the key of the list given
\* has its set of items.
C36_KeyTellsItemSetsApart ==
  last.op = "createSelectionKey" =>
    \A other \in KeyInputs :
       KeyOf[other] = last.hit => ItemSetOf[other] = ItemSetOf[last.words]

\* the key of the two items b and a, which is not the key of the one item ab
C36_Witness ==
  /\ last.op = "createSelectionKey"
  /\ last.words = << <<"b">>, <<" ", "a", " ">> >>
  /\ last.hit = <<"a", "|", "b">>
  /\ KeyOf[<< <<"a", "b">> >>] = <<"a", "b">>
  /\ KeyOf[<< <<"a">>, <<"b">>, <<>> >>] = last.hit

(***************************************************************************)
(* Properties of the initializer (SpecLoad)                                *)
(***************************************************************************)
\* the record `name` of the progress loaded: every field of the defaults is
\* there, with the snapshot's value where the snapshot has the field and the
\* default's value where it has not
LoadedRecordOk(name) ==
  LET defaults == initialProgress[name]
      snapshot == FieldOr(FieldOr(storage.parsed, "progress"), name)
  IN /\ name \in DOMAIN state.progress
     /\ \A field \in DOMAIN defaults :
           /\ field \in DOMAIN state.progress[name]
           /\ state.progress[name][field]
                = IF field \in DOMAIN snapshot THEN snapshot[field] ELSE defaults[field]

\* C10: constructing the store from any persisted snapshot (fields missing,
\* extra fields, a snapshot of an older version) never crashes and leaves no
\* progress field undefined: a field absent from the snapshot has its default
\* value, a field present keeps its value.
C10_LoadFillsDefaults ==
  /\ pc # "crashed"
  /\ (last.op = "init" /\ storage.kind = "json") =>
        /\ "currentPage" \in DOMAIN state
        /\ state.currentPage = IF "currentPage" \in DOMAIN storage.parsed
                               THEN storage.parsed.currentPage
                               ELSE initialState.currentPage
        /\ LoadedRecordOk("hegionit")
        /\ LoadedRecordOk("wordle")
        /\ LoadedRecordOk("connections")

====
